---- MODULE Spec2Model ----
(***************************************************************************)
(* Playback engine of the PyQt6 music player (src/main.py): the control    *)
(* (UI) thread with its event handlers, and the playback worker threads    *)
(* started by load_and_play, coordinated through stop_playback_event,      *)
(* pause_playback_event and playback_finished_event.                       *)
(*                                                                         *)
(* A handler of the control thread runs atomically except where it blocks  *)
(* in audio_playback_thread.join(timeout=2.0): there the rest of the       *)
(* handler is kept in `todo` and the worker threads run until the thread   *)
(* ends or the join times out.                                             *)
(***************************************************************************)
EXTENDS Integers, Sequences, FiniteSets, TLC

----------------------------------------------------------------------------
(* Bounds of the model *)

\* number of audio files that can be added to the playlist
NFiles == 2
\* number of thread objects that can be alive at once
MaxThreads == 2
\* restart_playback_signal emissions that can be queued for the UI thread
MaxPending == 1

(* Program constants *)

NO_REPEAT == 0
REPEAT_CURRENT == 1
REPEAT_ALL == 2
blocksize_output == 1024

None == 0
NoDevice == 0 - 1

----------------------------------------------------------------------------
(* The environment: files and output devices *)

Files == 1 .. NFiles

\* sample rate and length (frames) of the decoded file f, as sf.read returns
\* them: a 16 kHz file of 25 ms and a 48 kHz file of 9 ms
FileRate(f) == IF f % 2 = 1 THEN 16000 ELSE 48000
FileFrames(f) == IF f % 2 = 1 THEN 400 ELSE 432

\* ids of the output devices the host can present as default
Devices == {0}

\* sd.check_output_settings(device, samplerate): the device takes 48000 Hz only
DeviceAccepts(dev, rate) ==
    /\ dev \in Devices
    /\ rate = 48000

DeviceDefaultRate(dev) == 48000

\* positions (ms) a click on the slider or a restart can ask for
SeekTargets == {0 - 5, 0, 9, 1000}

\* values (ms) of the position slider when it is released
SliderValues == {0, 9}

----------------------------------------------------------------------------
(* IEEE-754 double arithmetic of the ms <-> frame conversions *)

RECURSIVE FloorLog2(_)
FloorLog2(n) == IF n <= 1 THEN 0 ELSE 1 + FloorLog2(n \div 2)

RECURSIVE CeilLog2(_)
CeilLog2(n) == IF n <= 1 THEN 0 ELSE 1 + CeilLog2((n + 1) \div 2)

RECURSIVE Pow2(_)
Pow2(n) == IF n <= 0 THEN 1 ELSE 2 * Pow2(n - 1)

RECURSIVE ModPow2(_, _)
ModPow2(n, d) == IF n = 0 THEN 1 % d ELSE (2 * ModPow2(n - 1, d)) % d

RECURSIVE MulMod(_, _, _)
MulMod(a, b, d) ==
    IF b = 0 THEN 0
    ELSE LET h == MulMod(a, b \div 2, d)
         IN  (2 * h + (IF b % 2 = 1 THEN a ELSE 0)) % d

RECURSIVE GCD(_, _)
GCD(a, b) == IF b = 0 THEN a ELSE GCD(b, a % b)

IsPow2(n) == Pow2(FloorLog2(n)) = n

\* int((x / d) * m) for integers x >= 0, d > 0, m > 0, computed as Python
\* computes it: the quotient x / d is rounded to a double (53-bit mantissa,
\* round to nearest even), the product is rounded again, int() truncates.
\* The result differs from floor(x*m/d) only when x*m/d is an integer N, the
\* quotient was rounded down and the product fell below N: then it is N - 1.
FloatScale(x, d, m) ==
    IF x = 0 THEN 0
    ELSE LET lo == (x % d) * m
             N  == (x \div d) * m + lo \div d
         IN  IF lo % d # 0 THEN N
             ELSE IF IsPow2(d \div GCD(x, d)) THEN N
             ELSE LET E  == IF x >= d THEN FloorLog2(x \div d)
                                      ELSE 0 - CeilLog2((d + x - 1) \div x)
                      r  == MulMod(x % d, ModPow2(52 - E, d), d)
                      g  == GCD(m, d)
                      c  == (r \div (d \div g)) * (m \div g)
                      LN == IF IsPow2(N) THEN FloorLog2(N) - 1 ELSE FloorLog2(N)
                      k  == LN - E - 1
                  IN  IF 2 * r > d THEN N
                      ELSE IF k < 0 \/ c > Pow2(k) THEN N - 1 ELSE N

Max(a, b) == IF a >= b THEN a ELSE b
Min(a, b) == IF a <= b THEN a ELSE b

\* int((ms / 1000.0) * rate): int() truncates towards zero
MsToFrame(ms, rate) ==
    IF rate = 0 THEN 0
    ELSE IF ms >= 0 THEN FloatScale(ms, 1000, rate)
    ELSE 0 - FloatScale(0 - ms, 1000, rate)

\* max(0, min(frame, total))
ClampFrame(frame, total) == Max(0, Min(frame, total))

\* int((frame / rate) * 1000) if rate > 0 else 0
FrameToMs(frame, rate) ==
    IF rate > 0 THEN FloatScale(frame, rate, 1000) ELSE 0

\* int(np.ceil(blocksize_output * (file_rate / out_rate))), at least 1; for
\* the rates of the model the quotient is dyadic or the product is no integer,
\* so the double result equals the exact ceiling
InputFrames(file_rate, out_rate) ==
    Max(1, (blocksize_output * file_rate + out_rate - 1) \div out_rate)

----------------------------------------------------------------------------
(* The state of the player *)

VARIABLES
    playlist,                     \* self.playlist: sequence of files
    shuffled_playlist,            \* self.shuffled_playlist
    current_index,                \* self.current_index (-1: none)
    current_shuffled_index,       \* self.current_shuffled_index
    shuffle_mode,                 \* self._shuffle_mode
    repeat_mode,                  \* self._repeat_mode
    current_playback_file,        \* self.current_playback_file (None or a file)
    current_audio_data_original,  \* the decoded buffer (None or the file it holds)
    file_samplerate,              \* self._file_samplerate
    audio_samplerate_output,      \* self.audio_samplerate_output
    total_frames,                 \* self.total_frames
    current_frame,                \* self.current_frame (PlaybackPosition)
    is_playing,                   \* self.is_playing
    stop_playback_event,          \* threading.Event: stop-requested
    pause_playback_event,         \* threading.Event: pause-requested
    playback_finished_event,      \* threading.Event: finished
    audio_playback_thread,        \* self.audio_playback_thread (None or a thread)
    audio_stream,                 \* self.audio_stream (None or the thread whose stream it is)
    timer_active,                 \* self.ui_update_timer.isActive()
    status_label,                 \* text of self.lbl_status
    current_device_status,        \* self._current_device_status
    selected_output_device_index, \* self.selected_output_device_index
    restart_signals,              \* queued restart_playback_signal emissions (ms)
    audio_error_pending,          \* a queued audio_error_signal emission
    threads,                      \* the worker threads, by thread object
    todo,                         \* rest of the handler blocked in join()
    default_device,               \* the host's default output device (NoDevice: none)
    loaded,                       \* outcome of the handler's load_and_play call
    finished_by,                  \* which thread set playback_finished_event
    call,                         \* the handler that runs or has just returned
    probe                         \* a function of the player applied on its own

vars == <<playlist, shuffled_playlist, current_index, current_shuffled_index,
          shuffle_mode, repeat_mode, current_playback_file,
          current_audio_data_original, file_samplerate, audio_samplerate_output,
          total_frames, current_frame, is_playing, stop_playback_event,
          pause_playback_event, playback_finished_event, audio_playback_thread,
          audio_stream, timer_active, status_label, current_device_status,
          selected_output_device_index, restart_signals, audio_error_pending,
          threads, todo, default_device, loaded, finished_by, call, probe>>

Threads == 1 .. MaxThreads

\* a thread object that is not running
DeadThread ==
    [pc |-> "dead", pos |-> 0, n |-> 0, out_rate |-> 0, stream |-> "none",
     abandoned |-> FALSE]

\* no function is applied on its own
NoProbe == [fn |-> "none"]

\* no handler has just returned
NoCall ==
    [h |-> "none", arg |-> 0, file |-> None, index |-> 0, sindex |-> 0,
     frame |-> 0, playing |-> FALSE, paused |-> FALSE, label |-> "none",
     fin |-> "none", worker |-> "none", after |-> "none", raised |-> "none"]

\* the state as one record, which the handlers transform
State ==
    [playlist |-> playlist, shuffled_playlist |-> shuffled_playlist,
     current_index |-> current_index,
     current_shuffled_index |-> current_shuffled_index,
     shuffle_mode |-> shuffle_mode, repeat_mode |-> repeat_mode,
     current_playback_file |-> current_playback_file,
     current_audio_data_original |-> current_audio_data_original,
     file_samplerate |-> file_samplerate,
     audio_samplerate_output |-> audio_samplerate_output,
     total_frames |-> total_frames, current_frame |-> current_frame,
     is_playing |-> is_playing, stop_playback_event |-> stop_playback_event,
     pause_playback_event |-> pause_playback_event,
     playback_finished_event |-> playback_finished_event,
     audio_playback_thread |-> audio_playback_thread,
     audio_stream |-> audio_stream, timer_active |-> timer_active,
     status_label |-> status_label,
     current_device_status |-> current_device_status,
     selected_output_device_index |-> selected_output_device_index,
     restart_signals |-> restart_signals,
     audio_error_pending |-> audio_error_pending, threads |-> threads,
     todo |-> todo, default_device |-> default_device, loaded |-> loaded,
     finished_by |-> finished_by, call |-> call]

CommitPlayer(s) ==
    /\ playlist' = s.playlist
    /\ shuffled_playlist' = s.shuffled_playlist
    /\ current_index' = s.current_index
    /\ current_shuffled_index' = s.current_shuffled_index
    /\ shuffle_mode' = s.shuffle_mode
    /\ repeat_mode' = s.repeat_mode
    /\ current_playback_file' = s.current_playback_file
    /\ current_audio_data_original' = s.current_audio_data_original
    /\ file_samplerate' = s.file_samplerate
    /\ audio_samplerate_output' = s.audio_samplerate_output
    /\ total_frames' = s.total_frames
    /\ current_frame' = s.current_frame
    /\ is_playing' = s.is_playing
    /\ stop_playback_event' = s.stop_playback_event
    /\ pause_playback_event' = s.pause_playback_event
    /\ playback_finished_event' = s.playback_finished_event
    /\ audio_playback_thread' = s.audio_playback_thread
    /\ audio_stream' = s.audio_stream
    /\ timer_active' = s.timer_active
    /\ status_label' = s.status_label
    /\ current_device_status' = s.current_device_status
    /\ selected_output_device_index' = s.selected_output_device_index
    /\ restart_signals' = s.restart_signals
    /\ audio_error_pending' = s.audio_error_pending
    /\ threads' = s.threads
    /\ todo' = s.todo
    /\ default_device' = s.default_device
    /\ loaded' = s.loaded
    /\ finished_by' = s.finished_by
    /\ call' = s.call

Commit(s) ==
    /\ CommitPlayer(s)
    /\ probe' = probe

Range(seq) == {seq[i] : i \in DOMAIN seq}

\* all orders of the elements of the sequence seq (random.shuffle)
Perms(seq) ==
    {p \in [DOMAIN seq -> Range(seq)] :
        \A i, j \in DOMAIN seq : p[i] = p[j] => i = j}

\* seq[i] of a Python list: 0-based, a negative index counts from the end
PyIndex(seq, i) == IF i < 0 THEN seq[Len(seq) + i + 1] ELSE seq[i + 1]

\* seq.index(x) of a Python list that holds x
IndexOf(seq, x) == (CHOOSE i \in DOMAIN seq : seq[i] = x) - 1

Alive(s) == {t \in Threads : s.threads[t].pc # "dead"}

IsAlive(s, t) == t # None /\ s.threads[t].pc # "dead"

\* the rest of the handler: the head operation replaced by ops
Push(s, ops) == [s EXCEPT !.todo = ops \o Tail(@)]

Pop(s) == [s EXCEPT !.todo = Tail(@)]

----------------------------------------------------------------------------
(* stop_playback *)

OpStop(final) == [op |-> "stop_playback", final |-> final]
OpJoin == [op |-> "join"]
OpStopEnd(final) == [op |-> "stop_playback_end", final |-> final]
OpLabel(l) == [op |-> "label", label |-> l]

\* stop_playback up to the join: the timer is stopped, stop is requested and
\* the pause request is withdrawn
stop_playback(s, final) ==
    Push([s EXCEPT !.timer_active = FALSE,
                   !.stop_playback_event = TRUE,
                   !.pause_playback_event = FALSE],
         <<OpJoin, OpStopEnd(final)>>)

\* join(timeout=2.0) returned and the thread is still alive: the stream that
\* self.audio_stream names is closed if it is active, and the reference dropped
join_timed_out(s) ==
    LET t  == s.audio_playback_thread
        st == s.audio_stream
        closed == IF st # None /\ s.threads[st].stream = "open"
                  THEN [s.threads EXCEPT ![st].stream = "closed"]
                  ELSE s.threads
    IN  Pop([s EXCEPT !.threads = [closed EXCEPT ![t].abandoned = TRUE],
                      !.audio_stream = None])

\* a stop_playback that resets the track whatever final_stop is
stop_playback_end_reset(s, final) ==
    Pop([s EXCEPT !.stop_playback_event = FALSE,
                  !.playback_finished_event = FALSE,
                  !.finished_by = "none",
                  !.is_playing = FALSE,
                  !.current_frame = 0,
                  !.total_frames = 0,
                  !.current_playback_file = None,
                  !.current_audio_data_original = None,
                  !.status_label = "Stopped"])

\* stop_playback after the join
stop_playback_end(s, final) ==
    LET s1 == [s EXCEPT !.stop_playback_event = FALSE,
                        !.playback_finished_event = FALSE,
                        !.finished_by = "none"]
    IN  Pop(IF final
            THEN [s1 EXCEPT !.is_playing = FALSE,
                            !.current_frame = 0,
                            !.total_frames = 0,
                            !.current_playback_file = None,
                            !.current_audio_data_original = None,
                            !.status_label = "Stopped"]
            ELSE s1)

----------------------------------------------------------------------------
(* load_and_play *)

OpLoad(file, ms, stop_current, auto, outcome) ==
    [op |-> "load_and_play", file |-> file, ms |-> ms,
     stop_current |-> stop_current, auto |-> auto, outcome |-> outcome]
OpLoadBody(file, ms, auto, outcome) ==
    [op |-> "load_and_play_body", file |-> file, ms |-> ms, auto |-> auto,
     outcome |-> outcome]
OpLoadEnd == [op |-> "load_and_play_end"]

\* what can become of a load: the file is read, os.path.exists fails, or
\* sf.read raises
LoadOutcomes == {"ok", "missing", "unreadable"}

\* the rates _find_optimal_device_samplerate tries, in order
PrioritizedSamplerates(file_rate) == <<file_rate, 48000, 44100, 96000, 88200>>

\* unique_prioritized_samplerates: the rates of seq that are not in seen and
\* come for the first time, in order
RECURSIVE UniqueSamplerates(_, _)
UniqueSamplerates(seq, seen) ==
    IF seq = <<>> THEN <<>>
    ELSE IF Head(seq) \in seen THEN UniqueSamplerates(Tail(seq), seen)
    ELSE <<Head(seq)>> \o UniqueSamplerates(Tail(seq), seen \cup {Head(seq)})

\* sd.check_output_settings(device, samplerate, channels) does not raise
check_output_settings(device, samplerate, channels) ==
    <<samplerate, channels>> \in device.accepts

\* the loop over the rates: the first one the device accepts, None if none
RECURSIVE FirstAccepted(_, _, _)
FirstAccepted(seq, device, num_channels) ==
    IF seq = <<>> THEN None
    ELSE IF check_output_settings(device, Head(seq), num_channels)
    THEN Head(seq)
    ELSE FirstAccepted(Tail(seq), device, num_channels)

\* a rate negotiation that tries the common rates before the rate of the file
find_optimal_device_samplerate_common_first(file_rate, device, num_channels) ==
    IF ~device.ok THEN file_rate
    ELSE LET sr == FirstAccepted(
                       UniqueSamplerates(
                           Tail(PrioritizedSamplerates(file_rate))
                               \o <<file_rate>>, {}),
                       device, num_channels)
         IN  IF sr # None THEN sr
             ELSE IF check_output_settings(device, device.default_samplerate,
                                           num_channels)
             THEN device.default_samplerate
             ELSE file_rate

\* _find_optimal_device_samplerate: the first rate the device accepts, then
\* its default rate, else the rate of the file; the rate of the file as well
\* when sd.query_devices raises. device is what the host tells of the device:
\* ok (it can be queried), accepts (the pairs of rate and channels that
\* check_output_settings takes) and default_samplerate
find_optimal_device_samplerate(file_rate, device, num_channels) ==
    IF ~device.ok THEN file_rate
    ELSE LET sr == FirstAccepted(
                       UniqueSamplerates(
                           PrioritizedSamplerates(file_rate), {}),
                       device, num_channels)
         IN  IF sr # None THEN sr
             ELSE IF check_output_settings(device, device.default_samplerate,
                                           num_channels)
             THEN device.default_samplerate
             ELSE file_rate

\* channels of the decoded files
FileChannels == 2

\* sd.query_devices(dev) on the host of the model
QueryDevice(dev, present) ==
    [ok |-> present /\ dev \in Devices,
     accepts |-> {<<r, c>> \in {16000, 44100, 48000, 88200, 96000} \X {1, 2} :
                     DeviceAccepts(dev, r)},
     default_samplerate |-> DeviceDefaultRate(dev)]

\* the thread object threading.Thread(...) creates
FreeThread(s) ==
    CHOOSE t \in Threads :
        /\ s.threads[t].pc = "dead"
        /\ \A u \in Threads : s.threads[u].pc = "dead" => t <= u

\* load_and_play up to the try block
load_and_play(s, o) ==
    IF o.file = None \/ o.outcome = "missing"
    THEN Pop([s EXCEPT !.status_label = "Stopped", !.loaded = "missing"])
    ELSE IF o.stop_current
         THEN Push(s, <<OpStop(FALSE),
                        OpLoadBody(o.file, o.ms, o.auto, o.outcome)>>)
         ELSE Push(s, <<OpLoadBody(o.file, o.ms, o.auto, o.outcome)>>)

\* the try block of load_and_play, and its except clause
load_and_play_body(s, o) ==
    IF o.outcome = "unreadable"
    THEN Push([s EXCEPT !.current_playback_file = o.file,
                        !.loaded = "unreadable",
                        !.status_label =
                            IF s.current_device_status # "disconnected"
                            THEN "Paused" ELSE @],
              <<OpStop(TRUE), OpLabel("Stopped")>>)
    ELSE LET rate  == FileRate(o.file)
             total == FileFrames(o.file)
             s1 == [s EXCEPT
                      !.current_playback_file = o.file,
                      !.current_audio_data_original = o.file,
                      !.file_samplerate = rate,
                      !.audio_samplerate_output =
                          find_optimal_device_samplerate(
                              rate,
                              QueryDevice(s.selected_output_device_index,
                                          s.default_device # NoDevice),
                              FileChannels),
                      !.total_frames = total,
                      !.current_frame = ClampFrame(MsToFrame(o.ms, rate), total),
                      !.current_index = IndexOf(s.playlist, o.file),
                      !.loaded = "ok"]
         IN  IF o.auto
             THEN LET t == FreeThread(s1)
                  IN  Pop([s1 EXCEPT
                             !.stop_playback_event = FALSE,
                             !.pause_playback_event = FALSE,
                             !.playback_finished_event = FALSE,
                             !.finished_by = "none",
                             !.threads[t] =
                                 [pc |-> "start", pos |-> 0, n |-> 0,
                                  out_rate |-> s1.audio_samplerate_output,
                                  stream |-> "none", abandoned |-> FALSE],
                             !.audio_playback_thread = t,
                             !.is_playing = TRUE,
                             !.timer_active = TRUE,
                             !.status_label = "Playing"])
             ELSE IF IsAlive(s1, s1.audio_playback_thread)
                  THEN Push(s1, <<OpStop(FALSE), OpLoadEnd>>)
                  ELSE Push(s1, <<OpLoadEnd>>)

\* the end of load_and_play without auto start
load_and_play_end(s) ==
    Pop([s EXCEPT !.is_playing = FALSE,
                  !.pause_playback_event = TRUE,
                  !.status_label = "Stopped"])

----------------------------------------------------------------------------
(* The handlers of the control thread *)

OpSetIndexOf(file) == [op |-> "set_index_of", file |-> file]
OpSeekEnd(target, ms, was_playing, outcome) ==
    [op |-> "seek_position_audio_end", target |-> target, ms |-> ms,
     was_playing |-> was_playing, outcome |-> outcome]
OpNextEnd(outcome) == [op |-> "next_track_end", outcome |-> outcome]
OpPrevEnd(outcome) == [op |-> "prev_track_end", outcome |-> outcome]
OpUiEnd == [op |-> "update_ui_end"]
OpRemoveEnd(order) == [op |-> "remove_selected_tracks_end", order |-> order]
OpKeySeekEnd(target) == [op |-> "event_filter_seek_end", target |-> target]
OpDeviceLost == [op |-> "device_lost"]

\* self.current_index = self.playlist.index(next_file)
set_index_of(s, file) ==
    Pop([s EXCEPT !.current_index = IndexOf(s.playlist, file)])

\* toggle_play with a resume that only withdraws the pause request
toggle_play_flag_only(s, outcome) ==
    IF s.playlist = <<>> THEN s
    ELSE IF s.current_playback_file = None
    THEN LET idx == IF s.current_index = 0 - 1 THEN 0 ELSE s.current_index
         IN  [s EXCEPT !.current_index = idx,
                       !.todo = <<OpLoad(PyIndex(s.playlist, idx), 0, TRUE,
                                         TRUE, outcome)>>]
    ELSE IF s.is_playing
    THEN [s EXCEPT !.pause_playback_event = TRUE,
                   !.is_playing = FALSE,
                   !.status_label = "Paused"]
    ELSE [s EXCEPT !.pause_playback_event = FALSE,
                   !.is_playing = TRUE,
                   !.loaded = "ok",
                   !.status_label = "Playing"]

\* toggle_play
toggle_play(s, outcome) ==
    IF s.playlist = <<>> THEN s
    ELSE IF s.current_playback_file = None
    THEN LET idx == IF s.current_index = 0 - 1 THEN 0 ELSE s.current_index
         IN  [s EXCEPT !.current_index = idx,
                       !.todo = <<OpLoad(PyIndex(s.playlist, idx), 0, TRUE,
                                         TRUE, outcome)>>]
    ELSE IF s.is_playing
    THEN [s EXCEPT !.pause_playback_event = TRUE,
                   !.is_playing = FALSE,
                   !.status_label = "Paused"]
    ELSE [s EXCEPT !.todo =
             <<OpLoad(s.current_playback_file,
                      FrameToMs(s.current_frame, s.file_samplerate), TRUE,
                      TRUE, outcome)>>]

\* seek_position_audio up to the end of its stop_playback call
seek_position_audio(s, target_ms, outcome) ==
    IF s.current_audio_data_original = None THEN s
    ELSE LET target_frame ==
                 ClampFrame(MsToFrame(target_ms, s.file_samplerate),
                            s.total_frames)
             was_playing == s.is_playing /\ ~s.pause_playback_event
         IN  [s EXCEPT !.todo = <<OpStop(FALSE),
                                  OpSeekEnd(target_frame, target_ms,
                                            was_playing, outcome)>>]

\* seek_position_audio after stop_playback
seek_position_audio_end(s, o) ==
    LET s1 == [s EXCEPT !.current_frame = o.target]
    IN  IF o.was_playing
        THEN Push(s1, <<OpLoad(s1.current_playback_file, o.ms, FALSE, TRUE,
                               o.outcome)>>)
        ELSE Pop([s1 EXCEPT !.status_label =
                     IF s1.pause_playback_event THEN "Paused" ELSE "Stopped"])

\* the Key_Right (delta = 5000) and Key_Left (delta = -5000) branches of
\* eventFilter: target_pos_ms = current_frame / _file_samplerate * 1000 + delta
\* is a float, and raises ZeroDivisionError when the rate is 0; then
\* seek_position_audio(target_pos_ms) up to the end of its stop_playback call.
\* The target frame is current_frame + delta * rate / 1000 to within the
\* rounding of the doubles, which is far beyond the ends of the files of the
\* model: the clamp decides
event_filter_seek(s, delta) ==
    IF s.file_samplerate = 0
    THEN [s EXCEPT !.call.raised = "ZeroDivisionError"]
    ELSE IF s.current_audio_data_original = None THEN s
    ELSE LET target_frame ==
                 ClampFrame(s.current_frame
                                + (delta * s.file_samplerate) \div 1000,
                            s.total_frames)
         IN  [s EXCEPT !.todo = <<OpStop(FALSE), OpKeySeekEnd(target_frame)>>]

\* seek_position_audio after stop_playback with the float target_ms:
\* update_position_ui gives it to QSlider.setValue, which takes an int only
\* and raises TypeError
event_filter_seek_end(s, o) ==
    Pop([s EXCEPT !.current_frame = o.target, !.call.raised = "TypeError"])

\* a slider press that flips the pause request instead of setting it
stop_player_during_seek_flip(s) ==
    IF s.is_playing
    THEN [s EXCEPT !.pause_playback_event = ~@]
    ELSE s

\* stop_player_during_seek, the slot of slider.sliderPressed
stop_player_during_seek(s) ==
    IF s.is_playing
    THEN [s EXCEPT !.pause_playback_event = TRUE]
    ELSE s

\* resume_player_after_seek, the slot of slider.sliderReleased
resume_player_after_seek(s, seek_ms, outcome) ==
    seek_position_audio([s EXCEPT !.pause_playback_event = FALSE], seek_ms,
                        outcome)

\* next_track
next_track(s, outcome) ==
    IF s.playlist = <<>> THEN s
    ELSE [s EXCEPT !.todo = <<OpStop(FALSE), OpNextEnd(outcome)>>]

next_track_end(s, o) ==
    IF s.repeat_mode = REPEAT_CURRENT
    THEN Push(s, <<OpLoad(IF s.current_playback_file # None
                          THEN s.current_playback_file
                          ELSE PyIndex(s.playlist, s.current_index),
                          0, TRUE, TRUE, o.outcome)>>)
    ELSE IF s.shuffle_mode /\ s.shuffled_playlist # <<>>
    THEN LET j == (s.current_shuffled_index + 1) % Len(s.shuffled_playlist)
             next_file == PyIndex(s.shuffled_playlist, j)
         IN  Push([s EXCEPT !.current_shuffled_index = j],
                  <<OpLoad(next_file, 0, TRUE, TRUE, o.outcome),
                    OpSetIndexOf(next_file)>>)
    ELSE LET i == (s.current_index + 1) % Len(s.playlist)
         IN  Push([s EXCEPT !.current_index = i],
                  <<OpLoad(PyIndex(s.playlist, i), 0, TRUE, TRUE, o.outcome)>>)

\* prev_track
prev_track(s, outcome) ==
    IF s.playlist = <<>> THEN s
    ELSE [s EXCEPT !.todo = <<OpStop(FALSE), OpPrevEnd(outcome)>>]

prev_track_end(s, o) ==
    IF s.shuffle_mode /\ s.shuffled_playlist # <<>>
    THEN LET j == (s.current_shuffled_index - 1) % Len(s.shuffled_playlist)
             next_file == PyIndex(s.shuffled_playlist, j)
         IN  Push([s EXCEPT !.current_shuffled_index = j],
                  <<OpLoad(next_file, 0, TRUE, TRUE, o.outcome),
                    OpSetIndexOf(next_file)>>)
    ELSE LET i == (s.current_index - 1 + Len(s.playlist)) % Len(s.playlist)
         IN  Push([s EXCEPT !.current_index = i],
                  <<OpLoad(PyIndex(s.playlist, i), 0, TRUE, TRUE, o.outcome)>>)

\* play_selected: a double click on row index of the track list
play_selected(s, index, outcome) ==
    [s EXCEPT !.current_index = index,
              !.todo = <<OpLoad(PyIndex(s.playlist, index), 0, TRUE, TRUE,
                                outcome)>>]

\* load_last_session_state, the last step of __init__: files is what the
\* last opened path holds, last_song and last_position are the stored song
\* (None if none is stored) and its position, exists tells whether the song is
\* still on disk and outcome what becomes of the load
load_last_session_state(s, files, last_song, last_position, exists, outcome) ==
    LET s1 == [s EXCEPT !.playlist = @ \o files]
    IN  IF last_song # None /\ exists
        THEN IF last_song \in Range(s1.playlist)
             THEN [s1 EXCEPT
                     !.current_index = IndexOf(s1.playlist, last_song),
                     !.is_playing = FALSE,
                     !.todo = <<OpLoad(last_song, last_position, TRUE, FALSE,
                                       outcome),
                                OpLabel("Stopped")>>]
             ELSE s1
        ELSE IF s1.playlist # <<>>
        THEN [s1 EXCEPT
                !.current_index = 0,
                !.is_playing = FALSE,
                !.todo = <<OpLoad(PyIndex(s1.playlist, 0), 0, TRUE, FALSE,
                                  outcome),
                           OpLabel("Stopped")>>]
        ELSE s1

\* rebuild_shuffled_playlist, with order the outcome of random.shuffle on the
\* whole playlist
rebuild_shuffled_playlist(s, order) ==
    IF s.playlist = <<>> THEN [s EXCEPT !.shuffled_playlist = <<>>]
    ELSE IF s.current_playback_file # None
            /\ s.current_playback_file \in Range(s.playlist)
    THEN [s EXCEPT
            !.shuffled_playlist =
                <<s.current_playback_file>> \o
                SelectSeq(order, LAMBDA f : f # s.current_playback_file),
            !.current_shuffled_index = 0]
    ELSE [s EXCEPT !.shuffled_playlist = order,
                   !.current_shuffled_index = 0]

\* toggle_shuffle_mode
toggle_shuffle_mode(s, order) ==
    IF ~s.shuffle_mode
    THEN rebuild_shuffled_playlist([s EXCEPT !.shuffle_mode = TRUE], order)
    ELSE [s EXCEPT !.shuffle_mode = FALSE,
                   !.current_index =
                       IF s.current_playback_file # None
                          /\ s.current_playback_file \in Range(s.playlist)
                       THEN IndexOf(s.playlist, s.current_playback_file)
                       ELSE @]

\* toggle_repeat_mode
toggle_repeat_mode(s) == [s EXCEPT !.repeat_mode = (@ + 1) % 3]

\* add_files_to_playlist with one new file
add_files_to_playlist(s, f, order) ==
    LET s1 == [s EXCEPT !.playlist = Append(@, f)]
    IN  IF s1.shuffle_mode THEN rebuild_shuffled_playlist(s1, order) ELSE s1

\* x = seq.pop(from); seq.insert(to, x) on a Python list
PopInsert(seq, from, to) ==
    LET rest == SubSeq(seq, 1, from) \o SubSeq(seq, from + 2, Len(seq))
    IN  SubSeq(rest, 1, to) \o <<seq[from + 1]>>
            \o SubSeq(rest, to + 1, Len(rest))

\* the end of the three handlers that reorder the playlist: in shuffle mode
\* the shuffled playlist is rebuilt and the loaded track looked up in it
reshuffle_after_move(s, order, reset) ==
    IF ~s.shuffle_mode THEN s
    ELSE LET r == rebuild_shuffled_playlist(s, order)
         IN  IF r.current_playback_file # None
                /\ r.current_playback_file \in Range(r.shuffled_playlist)
             THEN [r EXCEPT !.current_shuffled_index =
                               IndexOf(r.shuffled_playlist,
                                       r.current_playback_file)]
             ELSE IF reset THEN [r EXCEPT !.current_shuffled_index = 0 - 1]
             ELSE r

\* move_track_up: the current row of the track list moves up by one
move_track_up(s, current_row, order) ==
    IF current_row > 0
    THEN reshuffle_after_move(
             [s EXCEPT
                !.playlist = PopInsert(@, current_row, current_row - 1),
                !.current_index =
                    IF @ = current_row THEN @ - 1
                    ELSE IF @ = current_row + 1 THEN @ - 1
                    ELSE @],
             order, FALSE)
    ELSE s

\* move_track_down: the current row of the track list moves down by one
move_track_down(s, current_row, order) ==
    IF current_row # 0 - 1 /\ current_row < Len(s.playlist) - 1
    THEN reshuffle_after_move(
             [s EXCEPT
                !.playlist = PopInsert(@, current_row, current_row + 1),
                !.current_index =
                    IF @ = current_row THEN @ + 1
                    ELSE IF @ = current_row + 1 THEN @ - 1
                    ELSE @],
             order, FALSE)
    ELSE s

\* _handle_playlist_rows_moved, the slot of rowsMoved of the track list: row
\* start was dragged to stand before row
handle_playlist_rows_moved(s, start, row, order) ==
    IF start = row \/ start = row - 1 THEN s
    ELSE LET moved == PopInsert(s.playlist, start,
                                IF row > start THEN row - 1 ELSE row)
             s1 == [s EXCEPT !.playlist = moved]
         IN  reshuffle_after_move(
                 IF s1.current_playback_file # None
                    /\ s1.current_playback_file \in Range(moved)
                 THEN [s1 EXCEPT !.current_index =
                                    IndexOf(moved, s1.current_playback_file)]
                 ELSE s1,
                 order, TRUE)

\* remove_selected_tracks with one selected row, up to the first final stop:
\* the row leaves the playlist and the shuffled playlist, and playback is
\* stopped if the row is the track that is loaded
remove_selected_tracks(s, idx, order) ==
    LET file_path == PyIndex(s.playlist, idx)
        s1 == [s EXCEPT
                 !.playlist = SelectSeq(@, LAMBDA f : f # file_path),
                 !.shuffled_playlist = SelectSeq(@, LAMBDA f : f # file_path)]
    IN  [s1 EXCEPT !.todo =
            IF file_path = s.current_playback_file
            THEN <<OpStop(TRUE), OpRemoveEnd(order)>>
            ELSE <<OpRemoveEnd(order)>>]

\* remove_selected_tracks from the test of current_index on: an index past
\* the end moves to the last row, with a final stop when no row is left;
\* else the shuffled playlist is rebuilt in shuffle mode
remove_selected_tracks_end(s, o) ==
    LET s1 == IF s.current_index >= Len(s.playlist)
              THEN [s EXCEPT !.current_index = Len(s.playlist) - 1]
              ELSE s
    IN  IF s.current_index >= Len(s.playlist) /\ s1.current_index = 0 - 1
        THEN Push(s1, <<OpStop(TRUE), OpLabel("Stopped")>>)
        ELSE IF s1.shuffle_mode
        THEN LET r == rebuild_shuffled_playlist(s1, o.order)
             IN  Pop([r EXCEPT !.current_shuffled_index =
                         IF r.current_playback_file # None
                            /\ r.current_playback_file
                                   \in Range(r.shuffled_playlist)
                         THEN IndexOf(r.shuffled_playlist,
                                      r.current_playback_file)
                         ELSE 0 - 1])
        ELSE Pop(s1)

\* an advance that stays on the last track instead of wrapping
next_idx_clamped(current_idx, length) == Min(current_idx + 1, length - 1)

\* REPEAT_ALL: next_idx = (current_idx + 1) % len(...)
next_idx(current_idx, length) == (current_idx + 1) % length

\* a test for a next track that stops one track early
next_song_exists_short(current_idx, length) == current_idx + 1 < length - 1

\* NO_REPEAT: next_song_exists, next_idx < len(...)
next_song_exists(current_idx, length) == current_idx + 1 < length

\* _update_ui_from_threads, the handler of ui_update_timer: the finished
\* signal is consumed and answered by repeat mode
update_ui_from_threads(s, outcome) ==
    IF s.playback_finished_event
    THEN LET s1 == [s EXCEPT !.playback_finished_event = FALSE,
                             !.finished_by = "none"]
         IN  IF s1.repeat_mode = REPEAT_CURRENT
             THEN IF s1.current_playback_file # None
                  THEN [s1 EXCEPT !.todo =
                           <<OpLoad(s1.current_playback_file, 0, TRUE, TRUE,
                                    outcome), OpUiEnd>>]
                  ELSE [s1 EXCEPT !.todo = <<OpStop(TRUE), OpUiEnd>>]
             ELSE IF s1.repeat_mode = REPEAT_ALL
             THEN IF s1.shuffle_mode /\ s1.shuffled_playlist # <<>>
                  THEN LET j == next_idx(s1.current_shuffled_index,
                                         Len(s1.shuffled_playlist))
                           next_file == PyIndex(s1.shuffled_playlist, j)
                       IN  [s1 EXCEPT !.current_shuffled_index = j,
                                      !.todo =
                                          <<OpLoad(next_file, 0, TRUE, TRUE,
                                                   outcome),
                                            OpSetIndexOf(next_file), OpUiEnd>>]
                  ELSE IF s1.playlist # <<>>
                  THEN LET i == next_idx(s1.current_index, Len(s1.playlist))
                       IN  [s1 EXCEPT !.current_index = i,
                                      !.todo =
                                          <<OpLoad(PyIndex(s1.playlist, i), 0,
                                                   TRUE, TRUE, outcome),
                                            OpUiEnd>>]
                  ELSE [s1 EXCEPT !.todo = <<OpStop(TRUE), OpUiEnd>>]
             ELSE IF s1.shuffle_mode /\ s1.shuffled_playlist # <<>>
             THEN LET j == s1.current_shuffled_index + 1
                  IN  IF next_song_exists(s1.current_shuffled_index,
                                          Len(s1.shuffled_playlist))
                      THEN [s1 EXCEPT !.current_shuffled_index = j,
                                      !.todo =
                                          <<OpLoad(PyIndex(s1.shuffled_playlist, j),
                                                   0, TRUE, TRUE, outcome),
                                            OpUiEnd>>]
                      ELSE [s1 EXCEPT !.todo =
                               <<OpStop(TRUE), OpLabel("Stopped"), OpUiEnd>>]
             ELSE IF s1.playlist # <<>>
                     /\ next_song_exists(s1.current_index, Len(s1.playlist))
             THEN LET i == s1.current_index + 1
                  IN  [s1 EXCEPT !.current_index = i,
                                 !.todo =
                                     <<OpLoad(PyIndex(s1.playlist, i), 0, TRUE,
                                              TRUE, outcome), OpUiEnd>>]
             ELSE [s1 EXCEPT !.todo =
                      <<OpStop(TRUE), OpLabel("Stopped"), OpUiEnd>>]
    ELSE IF s.stop_playback_event
    THEN [s EXCEPT !.stop_playback_event = FALSE,
                   !.current_frame = 0,
                   !.status_label = "Stopped",
                   !.todo = <<OpUiEnd>>]
    ELSE [s EXCEPT !.todo = <<OpUiEnd>>]

\* the last statement of _update_ui_from_threads: a thread that has ended is
\* forgotten
update_ui_end(s) ==
    Pop(IF s.audio_playback_thread # None
           /\ ~IsAlive(s, s.audio_playback_thread)
           /\ ~s.stop_playback_event
        THEN [s EXCEPT !.audio_playback_thread = None]
        ELSE s)

\* update_default_audio_device_display, run by device_check_timer or on the
\* watcher's notification
update_default_audio_device_display(s, outcome) ==
    IF s.default_device = NoDevice
    THEN IF s.current_device_status = "connected"
            /\ s.current_playback_file # None
            /\ (s.is_playing \/ ~s.pause_playback_event)
         THEN [s EXCEPT !.todo = <<OpStop(FALSE), OpLabel("Paused"),
                                   OpDeviceLost>>]
         ELSE [s EXCEPT !.todo = <<OpDeviceLost>>]
    ELSE IF s.default_device # s.selected_output_device_index
            \/ s.current_device_status # "connected"
    THEN LET s1 == [s EXCEPT
                      !.selected_output_device_index = s.default_device,
                      !.current_device_status = "connected"]
         IN  IF s1.current_playback_file # None
             THEN [s1 EXCEPT !.todo =
                      <<OpStop(FALSE),
                        OpLoad(s1.current_playback_file,
                               FrameToMs(s1.current_frame, s1.file_samplerate),
                               FALSE, TRUE, outcome)>>]
             ELSE s1
    ELSE s

\* an except clause that leaves the selected device as it is
device_lost_keeps_index(s) ==
    Pop([s EXCEPT !.current_device_status = "disconnected"])

\* the except clause of update_default_audio_device_display, after its stop
device_lost(s) ==
    Pop([s EXCEPT !.current_device_status = "disconnected",
                  !.selected_output_device_index = NoDevice])

\* _delayed_restart_playback, the slot of restart_playback_signal
delayed_restart_playback(s, outcome) ==
    LET ms == Head(s.restart_signals)
        s1 == [s EXCEPT !.restart_signals = Tail(@)]
    IN  IF s1.current_playback_file # None
           /\ s1.current_device_status = "connected"
        THEN [s1 EXCEPT !.todo = <<OpLoad(s1.current_playback_file, ms, TRUE,
                                          TRUE, outcome)>>]
        ELSE [s1 EXCEPT !.todo = <<OpStop(TRUE)>>]

\* _handle_audio_error_in_ui, the slot of audio_error_signal
handle_audio_error_in_ui(s) ==
    [s EXCEPT !.audio_error_pending = FALSE, !.status_label = "Paused"]

----------------------------------------------------------------------------
(* Running a handler *)

\* one operation of the handler
Step(s) ==
    LET o == Head(s.todo)
    IN  CASE o.op = "stop_playback" -> stop_playback(s, o.final)
          [] o.op = "join" -> Pop(s)
          [] o.op = "stop_playback_end" -> stop_playback_end(s, o.final)
          [] o.op = "label" -> Pop([s EXCEPT !.status_label = o.label])
          [] o.op = "load_and_play" -> load_and_play(s, o)
          [] o.op = "load_and_play_body" -> load_and_play_body(s, o)
          [] o.op = "load_and_play_end" -> load_and_play_end(s)
          [] o.op = "set_index_of" -> set_index_of(s, o.file)
          [] o.op = "seek_position_audio_end" -> seek_position_audio_end(s, o)
          [] o.op = "next_track_end" -> next_track_end(s, o)
          [] o.op = "prev_track_end" -> prev_track_end(s, o)
          [] o.op = "update_ui_end" -> update_ui_end(s)
          [] o.op = "device_lost" -> device_lost(s)
          [] o.op = "remove_selected_tracks_end" ->
                 remove_selected_tracks_end(s, o)
          [] o.op = "event_filter_seek_end" -> event_filter_seek_end(s, o)

\* the handler waits in join() for a thread that is alive
Joining(s) ==
    /\ s.todo # <<>>
    /\ Head(s.todo).op = "join"
    /\ IsAlive(s, s.audio_playback_thread)

\* the handler runs until it returns or waits in join()
RECURSIVE Run(_)
Run(s) == IF s.todo = <<>> \/ Joining(s) THEN s ELSE Run(Step(s))

----------------------------------------------------------------------------
(* The worker thread: _audio_playback_thread_main *)

\* a step of a thread is no return of a handler
Quiet(s) ==
    IF s.todo = <<>> THEN [s EXCEPT !.call = NoCall, !.loaded = "none"] ELSE s

\* the thread ends; its stream, if open, is stopped and closed
ThreadExit(s, t) == [s EXCEPT !.threads[t] = DeadThread]

SetFinished(s, t) ==
    [s EXCEPT !.playback_finished_event = TRUE,
              !.finished_by = IF s.threads[t].abandoned THEN "abandoned"
                              ELSE "worker"]

\* sd.OutputStream(device, samplerate=out_rate).start() succeeds
StreamOpens(s, t) ==
    /\ s.default_device # NoDevice
    /\ DeviceAccepts(s.selected_output_device_index, s.threads[t].out_rate)

\* from the start of the thread to the first test of the loop
thread_start(s, t) ==
    IF s.current_audio_data_original = None
    THEN ThreadExit(SetFinished(s, t), t)
    ELSE IF s.selected_output_device_index = NoDevice
    THEN ThreadExit([s EXCEPT !.audio_error_pending =
                        IF s.current_device_status = "disconnected"
                        THEN @ ELSE TRUE], t)
    ELSE IF StreamOpens(s, t)
    THEN [s EXCEPT !.threads[t].stream = "open",
                   !.threads[t].pos = s.current_frame,
                   !.threads[t].pc = "loop",
                   !.audio_stream = t]
    ELSE IF s.current_device_status # "disconnected"
    THEN ThreadExit([s EXCEPT !.audio_error_pending = TRUE,
                              !.pause_playback_event = TRUE,
                              !.audio_stream = None], t)
    ELSE ThreadExit(s, t)

\* one pass of the loop that does not test pause before it reads the block
thread_loop_no_pause_test(s, t) ==
    LET th == s.threads[t]
    IN  IF s.stop_playback_event THEN ThreadExit(s, t)
        ELSE IF s.current_device_status = "disconnected"
        THEN ThreadExit([s EXCEPT !.pause_playback_event = TRUE], t)
        ELSE IF th.pos >= s.total_frames
        THEN ThreadExit(SetFinished(s, t), t)
        ELSE IF s.current_audio_data_original = None
        THEN ThreadExit([SetFinished(s, t) EXCEPT
                            !.audio_error_pending = TRUE], t)
        ELSE [s EXCEPT !.threads[t].n =
                           Min(InputFrames(s.file_samplerate, th.out_rate),
                               s.total_frames - th.pos),
                       !.threads[t].pc = "write"]

\* one pass of the loop that does not test stop before it reads the block
thread_loop_no_stop_test(s, t) ==
    LET th == s.threads[t]
    IN  IF s.pause_playback_event
        THEN [s EXCEPT !.threads[t].pc = "sleep"]
        ELSE IF s.current_device_status = "disconnected"
        THEN ThreadExit([s EXCEPT !.pause_playback_event = TRUE], t)
        ELSE IF th.pos >= s.total_frames
        THEN ThreadExit(SetFinished(s, t), t)
        ELSE IF s.current_audio_data_original = None
        THEN ThreadExit([SetFinished(s, t) EXCEPT
                            !.audio_error_pending = TRUE], t)
        ELSE [s EXCEPT !.threads[t].n =
                           Min(InputFrames(s.file_samplerate, th.out_rate),
                               s.total_frames - th.pos),
                       !.threads[t].pc = "write"]

\* one pass of the loop up to stream.write: the tests of stop and pause, of
\* the device status and of the end of the stream, and the read of the block
thread_loop(s, t) ==
    LET th == s.threads[t]
    IN  IF s.stop_playback_event THEN ThreadExit(s, t)
        ELSE IF s.pause_playback_event
        THEN [s EXCEPT !.threads[t].pc = "sleep"]
        ELSE IF s.current_device_status = "disconnected"
        THEN ThreadExit([s EXCEPT !.pause_playback_event = TRUE], t)
        ELSE IF th.pos >= s.total_frames
        THEN ThreadExit(SetFinished(s, t), t)
        ELSE IF s.current_audio_data_original = None
        THEN ThreadExit([SetFinished(s, t) EXCEPT
                            !.audio_error_pending = TRUE], t)
        ELSE [s EXCEPT !.threads[t].n =
                           Min(InputFrames(s.file_samplerate, th.out_rate),
                               s.total_frames - th.pos),
                       !.threads[t].pc = "write"]

\* the end of time.sleep(0.05) in the pause loop
thread_sleep(s, t) ==
    IF s.stop_playback_event THEN ThreadExit(s, t)
    ELSE [s EXCEPT !.threads[t].pc = "loop"]

\* a write after which the position advances by the frames written to the
\* device
thread_write_ok_output_frames(s, t) ==
    LET p == s.threads[t].pos + blocksize_output
    IN  [s EXCEPT !.threads[t].pos = p,
                  !.threads[t].n = 0,
                  !.threads[t].pc = "loop",
                  !.current_frame = p]

\* stream.write returned: the position advances by the frames read
thread_write_ok(s, t) ==
    LET p == s.threads[t].pos + s.threads[t].n
    IN  [s EXCEPT !.threads[t].pos = p,
                  !.threads[t].n = 0,
                  !.threads[t].pc = "loop",
                  !.current_frame = p]

\* stream.write raised PortAudioError -9999: the thread asks for a restart
\* at the position self.current_frame holds and ends
thread_write_host_error(s, t) ==
    ThreadExit([s EXCEPT
                  !.audio_stream = None,
                  !.restart_signals =
                      Append(@, FrameToMs(s.current_frame, s.file_samplerate)),
                  !.pause_playback_event = TRUE], t)

\* stream.write raised another PortAudioError: the thread pauses and ends,
\* with an error message if a default device is still there
thread_write_error(s, t) ==
    ThreadExit([s EXCEPT
                  !.pause_playback_event = TRUE,
                  !.audio_error_pending =
                      IF s.default_device # NoDevice THEN TRUE ELSE @], t)

----------------------------------------------------------------------------
(* Actions *)

\* a handler is entered: what it finds, as far as its effect depends on it, is
\* recorded for its return
Enter(h, arg) ==
    LET pause    == h \in {"toggle_play", "stop_player_during_seek"}
        position == pause \/ h \in {"seek_position_audio", "device_check",
                                     "eventFilter"}
        order    == h = "finished"
        edit     == h = "remove_selected_tracks"
        worker   == IF audio_playback_thread = None THEN "none"
                    ELSE threads[audio_playback_thread].pc
    IN  [State EXCEPT
            !.loaded = "none",
            !.call =
                [h |-> h, arg |-> arg,
                 file |-> IF position \/ order \/ edit
                          THEN current_playback_file ELSE None,
                 index |-> IF order THEN current_index ELSE 0,
                 sindex |-> IF order THEN current_shuffled_index ELSE 0,
                 frame |-> IF pause THEN current_frame ELSE 0,
                 playing |-> position /\ is_playing,
                 paused |-> position /\ pause_playback_event,
                 label |-> IF position THEN status_label ELSE "none",
                 fin |-> IF order THEN finished_by ELSE "none",
                 worker |-> IF pause \/ edit \/ h = "device_check" THEN worker
                            ELSE "none",
                 after |-> IF pause /\ todo = <<>> /\ call.playing
                              /\ call.h \in {"toggle_play",
                                             "stop_player_during_seek"}
                           THEN "pause" ELSE "none",
                 raised |-> "none"]]

Plain == [State EXCEPT !.loaded = "none", !.call = NoCall]

Idle == todo = <<>>

AddFiles ==
    /\ Idle
    /\ Len(playlist) < NFiles
    /\ LET f == CHOOSE f \in Files \ Range(playlist) :
                    \A g \in Files \ Range(playlist) : f <= g
       IN  \E order \in Perms(Append(playlist, f)) :
               Commit(add_files_to_playlist(Plain, f, order))

\* the selected row of the track list is removed
RemoveSelected ==
    /\ Idle
    /\ \E idx \in 0 .. Len(playlist) - 1 :
           LET rest == SelectSeq(playlist,
                                 LAMBDA f : f # PyIndex(playlist, idx))
           IN  \E order \in Perms(rest) :
                   Commit(Run(remove_selected_tracks(
                                  Enter("remove_selected_tracks", idx), idx,
                                  order)))

\* outcomes of random.shuffle the handlers that reorder the playlist draw on
ShuffleOrders == IF shuffle_mode THEN Perms(playlist) ELSE {playlist}

\* the button that moves the current row of the track list up
MoveTrackUp ==
    /\ Idle
    /\ \E current_row \in 0 - 1 .. Len(playlist) - 1 :
       \E order \in ShuffleOrders :
           Commit(move_track_up(Enter("move_track_up", current_row),
                                current_row, order))

\* the button that moves the current row of the track list down
MoveTrackDown ==
    /\ Idle
    /\ \E current_row \in 0 - 1 .. Len(playlist) - 1 :
       \E order \in ShuffleOrders :
           Commit(move_track_down(Enter("move_track_down", current_row),
                                  current_row, order))

\* a row of the track list is dragged to another place
RowsMoved ==
    /\ Idle
    /\ \E start \in 0 .. Len(playlist) - 1, row \in 0 .. Len(playlist) :
       \E order \in ShuffleOrders :
           Commit(handle_playlist_rows_moved(
                      Enter("_handle_playlist_rows_moved", start), start, row,
                      order))

ToggleShuffle ==
    /\ Idle
    /\ \E order \in Perms(playlist) : Commit(toggle_shuffle_mode(Plain, order))

ToggleRepeat ==
    /\ Idle
    /\ Commit(toggle_repeat_mode(Plain))

PlaySelected ==
    /\ Idle
    /\ \E index \in 0 .. Len(playlist) - 1 : \E outcome \in LoadOutcomes :
           Commit(Run(play_selected(Enter("play_selected", index), index,
                                    outcome)))

TogglePlay ==
    /\ Idle
    /\ \E outcome \in LoadOutcomes :
           Commit(Run(toggle_play(Enter("toggle_play", 0), outcome)))

Seek ==
    /\ Idle
    /\ \E ms \in SeekTargets : \E outcome \in LoadOutcomes :
           Commit(Run(seek_position_audio(Enter("seek_position_audio", ms), ms,
                                          outcome)))

\* the right or left arrow key is pressed
KeySeek ==
    /\ Idle
    /\ \E delta \in {5000, 0 - 5000} :
           Commit(Run(event_filter_seek(Enter("eventFilter", delta), delta)))

SliderPressed ==
    /\ Idle
    /\ Commit(stop_player_during_seek(Enter("stop_player_during_seek", 0)))

SliderReleased ==
    /\ Idle
    /\ \E ms \in SliderValues : \E outcome \in LoadOutcomes :
           Commit(Run(resume_player_after_seek(
                          Enter("resume_player_after_seek", ms), ms, outcome)))

NextTrack ==
    /\ Idle
    /\ \E outcome \in LoadOutcomes :
           Commit(Run(next_track(Enter("next_track", 0), outcome)))

PrevTrack ==
    /\ Idle
    /\ \E outcome \in LoadOutcomes :
           Commit(Run(prev_track(Enter("prev_track", 0), outcome)))

UiTimer ==
    /\ Idle
    /\ timer_active
    /\ \E outcome \in LoadOutcomes :
           Commit(Run(update_ui_from_threads(
                          Enter(IF playback_finished_event
                                THEN "finished" ELSE "update_ui", 0),
                          outcome)))

DeviceCheck ==
    /\ Idle
    /\ \E outcome \in LoadOutcomes :
           Commit(Run(update_default_audio_device_display(
                          Enter("device_check", default_device), outcome)))

DelayedRestart ==
    /\ Idle
    /\ restart_signals # <<>>
    /\ \E outcome \in LoadOutcomes :
           Commit(Run(delayed_restart_playback(
                          Enter("delayed_restart", Head(restart_signals)),
                          outcome)))

HandleAudioError ==
    /\ Idle
    /\ audio_error_pending
    /\ Commit(handle_audio_error_in_ui(Plain))

\* the thread the handler waits for has ended: join() returns
JoinReturns ==
    /\ todo # <<>>
    /\ ~Joining(State)
    /\ Commit(Run(State))

\* join(timeout=2.0) gives up on a thread that is held in stream.write or is
\* about to open its stream (sd.OutputStream(...).start())
JoinTimeout ==
    /\ Joining(State)
    /\ \/ threads[audio_playback_thread].pc = "write"
       \/ /\ threads[audio_playback_thread].pc = "start"
          /\ current_audio_data_original # None
          /\ selected_output_device_index # NoDevice
    /\ Cardinality(Alive(State)) < MaxThreads
    /\ Commit(Run(join_timed_out(State)))

ThreadStart ==
    \E t \in Threads :
        /\ threads[t].pc = "start"
        /\ Commit(thread_start(Quiet(State), t))

ThreadLoop ==
    \E t \in Threads :
        /\ threads[t].pc = "loop"
        /\ Commit(thread_loop(Quiet(State), t))

ThreadSleep ==
    \E t \in Threads :
        /\ threads[t].pc = "sleep"
        /\ stop_playback_event \/ ~pause_playback_event
        /\ Commit(thread_sleep(Quiet(State), t))

ThreadWriteOk ==
    \E t \in Threads :
        /\ threads[t].pc = "write"
        /\ default_device # NoDevice
        /\ Commit(thread_write_ok(Quiet(State), t))

ThreadWriteHostError ==
    \E t \in Threads :
        /\ threads[t].pc = "write"
        /\ Len(restart_signals) < MaxPending
        /\ Commit(thread_write_host_error(Quiet(State), t))

ThreadWriteError ==
    \E t \in Threads :
        /\ threads[t].pc = "write"
        /\ default_device = NoDevice \/ threads[t].stream = "closed"
        /\ Commit(thread_write_error(Quiet(State), t))

\* an exception that is no PortAudioError is raised in the loop: the except
\* Exception clause signals finished and an error message, and the thread ends
thread_fatal_error(s, t) ==
    ThreadExit([s EXCEPT !.playback_finished_event = TRUE,
                         !.finished_by = "fatal",
                         !.audio_error_pending = TRUE], t)

ThreadFatalError ==
    \E t \in Threads :
        /\ threads[t].pc \in {"loop", "write"}
        /\ Commit(thread_fatal_error(Quiet(State), t))

\* the host's default output device changes or goes away
DeviceChange ==
    \E d \in Devices \cup {NoDevice} :
        /\ d # default_device
        /\ Commit([Quiet(State) EXCEPT !.default_device = d])

\* the state after MusicPlayer.__init__ with no saved session, on a host with
\* an output device: the first update_default_audio_device_display has run
InitPlayer ==
    /\ default_device \in Devices
    /\ playlist = <<>>
    /\ shuffled_playlist = <<>>
    /\ current_index = 0 - 1
    /\ current_shuffled_index = 0 - 1
    /\ shuffle_mode = FALSE
    /\ repeat_mode = NO_REPEAT
    /\ current_playback_file = None
    /\ current_audio_data_original = None
    /\ file_samplerate = 0
    /\ audio_samplerate_output = 0
    /\ total_frames = 0
    /\ current_frame = 0
    /\ is_playing = FALSE
    /\ stop_playback_event = FALSE
    /\ pause_playback_event = FALSE
    /\ playback_finished_event = FALSE
    /\ audio_playback_thread = None
    /\ audio_stream = None
    /\ timer_active = FALSE
    /\ status_label = "Stopped"
    /\ current_device_status =
           IF default_device = NoDevice THEN "disconnected" ELSE "connected"
    /\ selected_output_device_index = default_device
    /\ restart_signals = <<>>
    /\ audio_error_pending = FALSE
    /\ threads = [t \in Threads |-> DeadThread]
    /\ todo = <<>>
    /\ loaded = "none"
    /\ finished_by = "none"
    /\ call = NoCall

Init == InitPlayer /\ probe = NoProbe

\* the player with a device that stays and joins that return: the handlers of
\* the transport buttons, the slider and the timer, and the worker threads
Next ==
    \/ AddFiles
    \/ PlaySelected
    \/ TogglePlay
    \/ Seek
    \/ SliderPressed
    \/ SliderReleased
    \/ UiTimer
    \/ JoinReturns
    \/ ThreadStart
    \/ ThreadLoop
    \/ ThreadSleep
    \/ ThreadWriteOk

Spec == Init /\ [][Next]_vars

\* the same with a worker thread that is scheduled: the thread runs on, its
\* sleep of 0.05 s ends and the device takes the block it is given
SpecStop ==
    /\ Init
    /\ [][Next]_vars
    /\ WF_vars(ThreadStart)
    /\ WF_vars(ThreadLoop)
    /\ WF_vars(ThreadSleep)
    /\ WF_vars(ThreadWriteOk)

\* the same with the playlist navigation: shuffle, repeat, next and previous
NextPlaylist ==
    \/ AddFiles
    \/ ToggleShuffle
    \/ ToggleRepeat
    \/ PlaySelected
    \/ TogglePlay
    \/ NextTrack
    \/ PrevTrack
    \/ UiTimer
    \/ JoinReturns
    \/ ThreadStart
    \/ ThreadLoop
    \/ ThreadSleep
    \/ ThreadWriteOk

SpecPlaylist == Init /\ [][NextPlaylist]_vars

\* the player with joins that can time out
NextTimeout ==
    \/ AddFiles
    \/ TogglePlay
    \/ Seek
    \/ UiTimer
    \/ JoinReturns
    \/ JoinTimeout
    \/ ThreadStart
    \/ ThreadLoop
    \/ ThreadSleep
    \/ ThreadWriteOk

SpecTimeout == Init /\ [][NextTimeout]_vars

\* the player with a default device that changes or goes away, and writes
\* that fail
NextDevice ==
    \/ AddFiles
    \/ TogglePlay
    \/ UiTimer
    \/ DeviceChange
    \/ DeviceCheck
    \/ DelayedRestart
    \/ HandleAudioError
    \/ JoinReturns
    \/ ThreadStart
    \/ ThreadLoop
    \/ ThreadSleep
    \/ ThreadWriteOk
    \/ ThreadWriteHostError
    \/ ThreadWriteError

SpecDevice == Init /\ [][NextDevice]_vars

\* the player with a playlist that is edited while it plays, and joins that
\* can time out
NextEdit ==
    \/ AddFiles
    \/ RemoveSelected
    \/ TogglePlay
    \/ UiTimer
    \/ JoinReturns
    \/ JoinTimeout
    \/ ThreadStart
    \/ ThreadLoop
    \/ ThreadSleep
    \/ ThreadWriteOk

SpecEdit == Init /\ [][NextEdit]_vars

\* the player with a playlist that is reordered and shortened while a track
\* is loaded
NextMove ==
    \/ AddFiles
    \/ PlaySelected
    \/ MoveTrackUp
    \/ MoveTrackDown
    \/ RowsMoved
    \/ RemoveSelected
    \/ UiTimer
    \/ JoinReturns
    \/ ThreadStart
    \/ ThreadLoop
    \/ ThreadWriteOk

SpecMove == Init /\ [][NextMove]_vars

\* the player with the seeks of the slider and of the arrow keys
NextKeys ==
    \/ AddFiles
    \/ TogglePlay
    \/ Seek
    \/ KeySeek
    \/ UiTimer
    \/ JoinReturns
    \/ ThreadStart
    \/ ThreadLoop
    \/ ThreadSleep
    \/ ThreadWriteOk

SpecKeys == Init /\ [][NextKeys]_vars

\* the player with a worker that can meet an unexpected exception, in each
\* repeat mode
NextFatal ==
    \/ AddFiles
    \/ ToggleRepeat
    \/ TogglePlay
    \/ UiTimer
    \/ HandleAudioError
    \/ JoinReturns
    \/ ThreadStart
    \/ ThreadLoop
    \/ ThreadSleep
    \/ ThreadWriteOk
    \/ ThreadFatalError

SpecFatal == Init /\ [][NextFatal]_vars

----------------------------------------------------------------------------
(* Functions of the player applied on their own *)

\* the state of playback, which these functions leave alone
player_vars ==
    <<playlist, shuffled_playlist, current_index, current_shuffled_index,
      shuffle_mode, repeat_mode, current_playback_file,
      current_audio_data_original, file_samplerate, audio_samplerate_output,
      total_frames, current_frame, is_playing, stop_playback_event,
      pause_playback_event, playback_finished_event, audio_playback_thread,
      audio_stream, timer_active, status_label, current_device_status,
      selected_output_device_index, restart_signals, audio_error_pending,
      threads, todo, default_device, loaded, finished_by, call>>

\* rates of files and devices, and the devices sd.query_devices can describe
\* to a call with num_channels channels: the rates taken with that number of
\* channels, none or all of them taken with the other number
ProbeRates == {16000, 22050, 44100, 48000, 88200, 96000}

ProbeDevices(num_channels) ==
    {[ok |-> ok,
      accepts |-> (A \X {num_channels}) \cup (B \X {3 - num_channels}),
      default_samplerate |-> d] :
        ok \in BOOLEAN, A \in SUBSET ProbeRates, B \in {{}, ProbeRates},
        d \in {22050, 44100}}

\* a call of _find_optimal_device_samplerate is about to be made
InitRate ==
    /\ InitPlayer
    /\ \E file_rate \in {16000, 44100, 48000, 96000} :
       \E num_channels \in {1, 2} :
       \E device \in ProbeDevices(num_channels) :
           probe = [fn |-> "find_optimal_device_samplerate",
                    file_rate |-> file_rate, device |-> device,
                    num_channels |-> num_channels, result |-> None]

\* the call returns
FindRate ==
    /\ probe.fn = "find_optimal_device_samplerate"
    /\ probe.result = None
    /\ probe' = [probe EXCEPT !.result =
                     find_optimal_device_samplerate(
                         probe.file_rate, probe.device, probe.num_channels)]
    /\ UNCHANGED player_vars

NextRate == FindRate

SpecRate == InitRate /\ [][NextRate]_vars

(* The end of __init__ with a stored session: load_last_session_state is the
   one caller of load_and_play without auto start. *)

\* positions (ms) the store can hold for the last song
LastPositions == {0, 9, 12, 1000}

\* the files of the last opened path, in the order of the scan
LastPathFiles == {<<>>, <<1>>, <<2>>, <<1, 2>>}

\* __init__ has yet to call load_last_session_state
InitSession ==
    /\ InitPlayer
    /\ probe = [fn |-> "session", pending |-> TRUE]

SessionLoaded == probe.fn = "session" /\ ~probe.pending

LoadLastSession ==
    /\ probe.fn = "session"
    /\ probe.pending
    /\ \E files \in LastPathFiles, last_song \in Files \cup {None},
          last_position \in LastPositions, exists \in BOOLEAN,
          outcome \in LoadOutcomes :
           CommitPlayer(Run(load_last_session_state(
                                Enter("load_last_session_state",
                                      IF last_song # None /\ exists
                                      THEN last_position ELSE 0),
                                files, last_song, last_position, exists,
                                outcome)))
    /\ probe' = [probe EXCEPT !.pending = FALSE]

\* the player that starts with a stored session
NextSession ==
    \/ LoadLastSession
    \/ SessionLoaded /\ TogglePlay
    \/ SessionLoaded /\ Seek
    \/ SessionLoaded /\ UiTimer
    \/ SessionLoaded /\ JoinReturns
    \/ SessionLoaded /\ ThreadStart
    \/ SessionLoaded /\ ThreadLoop
    \/ SessionLoaded /\ ThreadSleep
    \/ SessionLoaded /\ ThreadWriteOk

SpecSession == InitSession /\ [][NextSession]_vars

\* the player at the end of the assignments of __init__, before the first
\* update_default_audio_device_display: the device status is unknown and no
\* device is selected, on a host with or without an output device
InitBoot ==
    /\ default_device \in Devices \cup {NoDevice}
    /\ playlist = <<>>
    /\ shuffled_playlist = <<>>
    /\ current_index = 0 - 1
    /\ current_shuffled_index = 0 - 1
    /\ shuffle_mode = FALSE
    /\ repeat_mode = NO_REPEAT
    /\ current_playback_file = None
    /\ current_audio_data_original = None
    /\ file_samplerate = 0
    /\ audio_samplerate_output = 0
    /\ total_frames = 0
    /\ current_frame = 0
    /\ is_playing = FALSE
    /\ stop_playback_event = FALSE
    /\ pause_playback_event = FALSE
    /\ playback_finished_event = FALSE
    /\ audio_playback_thread = None
    /\ audio_stream = None
    /\ timer_active = FALSE
    /\ status_label = "Stopped"
    /\ current_device_status = "unknown"
    /\ selected_output_device_index = NoDevice
    /\ restart_signals = <<>>
    /\ audio_error_pending = FALSE
    /\ threads = [t \in Threads |-> DeadThread]
    /\ todo = <<>>
    /\ loaded = "none"
    /\ finished_by = "none"
    /\ call = NoCall
    /\ probe = [fn |-> "boot", pending |-> TRUE]

Booted == probe.fn = "boot" /\ ~probe.pending

\* the first update_default_audio_device_display, called by __init__
FirstDeviceDisplay ==
    /\ probe.fn = "boot"
    /\ probe.pending
    /\ \E outcome \in LoadOutcomes :
           CommitPlayer(Run(update_default_audio_device_display(
                                Enter("device_check", default_device),
                                outcome)))
    /\ probe' = [probe EXCEPT !.pending = FALSE]

\* the player from the start of the application, with a default device that
\* changes or goes away
NextBoot ==
    \/ FirstDeviceDisplay
    \/ Booted /\ AddFiles
    \/ Booted /\ TogglePlay
    \/ Booted /\ UiTimer
    \/ Booted /\ DeviceChange
    \/ Booted /\ DeviceCheck
    \/ Booted /\ DelayedRestart
    \/ Booted /\ HandleAudioError
    \/ Booted /\ JoinReturns
    \/ Booted /\ ThreadStart
    \/ Booted /\ ThreadLoop
    \/ Booted /\ ThreadSleep
    \/ Booted /\ ThreadWriteOk
    \/ Booted /\ ThreadWriteHostError
    \/ Booted /\ ThreadWriteError

SpecBoot == InitBoot /\ [][NextBoot]_vars

(* The equalizer settings and their store (QSettings). A gain is counted in
   tenths of a dB, the step of the sliders of the editor: 25 is 2.5 dB. An
   element of a stored list is an int, a float, a string that is the text of
   a number ("str"), a string that is no number ("junk") or None. *)

NBands == 10

IntGain(v) == [kind |-> "int", v |-> v]
FloatGain(v) == [kind |-> "float", v |-> v]
TextGain(v) == [kind |-> "str", v |-> v]
JunkText == [kind |-> "junk", v |-> 0]
NoneElement == [kind |-> "none", v |-> 0]

\* [0] * 10
FlatSettings == [i \in 1 .. NBands |-> IntGain(0)]

\* int(x) of a float: the fraction is cut off, towards zero
TruncGain(v) ==
    IF v >= 0 THEN (v \div 10) * 10 ELSE 0 - (((0 - v) \div 10) * 10)

\* int(x) raises ValueError or TypeError: x is None, or a string that is not
\* the text of an integer
IntRaises(x) ==
    \/ x.kind \in {"none", "junk"}
    \/ x.kind = "str" /\ x.v % 10 # 0

\* int(x) where it does not raise
IntOf(x) == IntGain(IF x.kind = "float" THEN TruncGain(x.v) ELSE x.v)

\* what settings.value("equalizer_settings", type=list) gives in a new
\* process for the list that was stored: the elements as they were stored
\* (how = "native") or as their text (how = "text"), by the format of the
\* store of the platform
ReadBack(stored, how) ==
    IF how = "native" THEN stored
    ELSE [i \in DOMAIN stored |->
             IF stored[i].kind \in {"int", "float"}
             THEN TextGain(stored[i].v) ELSE stored[i]]

\* the gains the editor emits: value / 10.0 of each slider
EmittedGains(values) == [i \in DOMAIN values |-> FloatGain(values[i])]

\* a startup that takes the stored list whatever its length
init_equalizer_settings_any_length(e, loaded_settings) ==
    IF \E i \in DOMAIN loaded_settings : IntRaises(loaded_settings[i])
    THEN [e EXCEPT !.equalizer_settings = FlatSettings,
                   !.store = FlatSettings]
    ELSE [e EXCEPT !.equalizer_settings =
                       [i \in DOMAIN loaded_settings |->
                           IntOf(loaded_settings[i])]]

\* the try block of __init__ that loads the equalizer settings, and its
\* except clause
init_equalizer_settings(e, loaded_settings) ==
    IF \/ \E i \in DOMAIN loaded_settings : IntRaises(loaded_settings[i])
       \/ Len(loaded_settings) # NBands
    THEN [e EXCEPT !.equalizer_settings = FlatSettings,
                   !.store = FlatSettings]
    ELSE [e EXCEPT !.equalizer_settings =
                       [i \in DOMAIN loaded_settings |->
                           IntOf(loaded_settings[i])]]

\* apply_equalizer_settings: the gains of the editor become the settings and
\* are stored
apply_equalizer_settings(e, settings) ==
    [e EXCEPT !.equalizer_settings = settings, !.store = settings]

\* slider values of all bands that the editor is closed with
ExampleValues == <<20, 40, 30, 10, 0, 10, 20, 30, 20, 10>>

EditorValues ==
    {ExampleValues}
    \cup {[ExampleValues EXCEPT ![i] = g] :
              i \in {1, 5, NBands}, g \in {0 - 120, 0 - 15, 0 - 5, 5, 25, 120}}

\* lists that the store can hold when the player starts
StoredLists ==
    {FlatSettings,
     [i \in 1 .. NBands |-> TextGain(ExampleValues[i])],
     [i \in 1 .. NBands - 1 |-> IntGain(0)],
     [i \in 1 .. NBands + 1 |-> IntGain(0)],
     <<>>,
     [FlatSettings EXCEPT ![3] = JunkText],
     [FlatSettings EXCEPT ![NBands] = NoneElement],
     [i \in 1 .. NBands - 1 |-> IF i = 1 THEN JunkText ELSE IntGain(0)]}

\* the player is not running; the store holds some list
InitEq ==
    /\ InitPlayer
    /\ \E stored \in StoredLists :
           probe = [fn |-> "equalizer", running |-> FALSE, store |-> stored,
                    equalizer_settings |-> <<>>, started |-> FALSE,
                    read |-> <<>>, saved |-> <<>>]

\* the player starts: __init__ loads the settings
Startup ==
    /\ probe.fn = "equalizer"
    /\ ~probe.running
    /\ \E how \in {"native", "text"} :
           LET loaded_settings == ReadBack(probe.store, how)
           IN  probe' = init_equalizer_settings(
                            [probe EXCEPT !.running = TRUE,
                                          !.started = TRUE,
                                          !.read = loaded_settings],
                            loaded_settings)
    /\ UNCHANGED player_vars

\* the editor is closed with Apply
ApplyEqualizer ==
    /\ probe.fn = "equalizer"
    /\ probe.running
    /\ \E values \in EditorValues :
           probe' = apply_equalizer_settings(
                        [probe EXCEPT !.saved = values, !.started = FALSE,
                                      !.read = <<>>],
                        EmittedGains(values))
    /\ UNCHANGED player_vars

\* the player is closed
Quit ==
    /\ probe.fn = "equalizer"
    /\ probe.running
    /\ probe' = [probe EXCEPT !.running = FALSE, !.equalizer_settings = <<>>,
                              !.started = FALSE, !.read = <<>>]
    /\ UNCHANGED player_vars

NextEq ==
    \/ Startup
    \/ ApplyEqualizer
    \/ Quit

SpecEq == InitEq /\ [][NextEq]_vars

(* The equalizer filters. The coefficients and the samples are rationals
   [n, d] in lowest terms with d > 0; the arithmetic on them is exact. *)

Abs(x) == IF x < 0 THEN 0 - x ELSE x

Frac(n, d) ==
    LET g == GCD(Abs(n), d) IN [n |-> n \div g, d |-> d \div g]

Whole(k) == [n |-> k, d |-> 1]

RAdd(x, y) ==
    LET g == GCD(x.d, y.d)
    IN  Frac(x.n * (y.d \div g) + y.n * (x.d \div g), (x.d \div g) * y.d)

RSub(x, y) == RAdd(x, [n |-> 0 - y.n, d |-> y.d])

RMul(x, y) ==
    LET g1 == GCD(Abs(x.n), y.d)
        g2 == GCD(Abs(y.n), x.d)
    IN  Frac((x.n \div g1) * (y.n \div g2), (x.d \div g2) * (y.d \div g1))

RDiv(x, y) ==
    IF y.n > 0 THEN Frac(x.n * y.d, x.d * y.n)
    ELSE Frac(0 - x.n * y.d, x.d * (0 - y.n))

\* _get_band_frequencies
BandFrequencies == <<31, 62, 125, 250, 500, 1000, 2000, 4000, 8000, 16000>>

\* sin and cos of w0 = 2 * pi * center_freq / rate for the bands, at the file
\* rates of the model, in sixteenths (rounded to the nearest sixteenth)
TrigSixteenths(rate) ==
    IF rate = 16000
    THEN <<<<0, 16>>, <<0, 16>>, <<1, 16>>, <<2, 16>>, <<3, 16>>, <<6, 15>>,
           <<11, 11>>, <<16, 0>>, <<0, 0 - 16>>, <<0, 16>>>>
    ELSE <<<<0, 16>>, <<0, 16>>, <<0, 16>>, <<1, 16>>, <<1, 16>>, <<2, 16>>,
           <<4, 15>>, <<8, 14>>, <<14, 8>>, <<14, 0 - 8>>>>

BandOf(center_freq) == CHOOSE i \in 1 .. NBands : BandFrequencies[i] = center_freq

SinW0(center_freq, rate) ==
    Frac(TrigSixteenths(rate)[BandOf(center_freq)][1], 16)

CosW0(center_freq, rate) ==
    Frac(TrigSixteenths(rate)[BandOf(center_freq)][2], 16)

\* A = 10 ** (gain_db / 40.0) for a gain in tenths of a dB: 1 for 0 dB, which
\* is exact in the doubles as well; 7/5 and 2 stand for 1.4125 (6 dB) and
\* 1.9953 (12 dB), 5/7 and 1/2 for the cuts
GainFactor(gain) ==
    CASE gain = 0 -> Whole(1)
      [] gain = 60 -> Frac(7, 5)
      [] gain = 120 -> Whole(2)
      [] gain = 0 - 60 -> Frac(5, 7)
      [] gain = 0 - 120 -> Frac(1, 2)

\* the identity filter [1.0], [1.0]
IdentityFilter == [b |-> <<Whole(1)>>, a |-> <<Whole(1)>>]

\* a filter design whose b2 has the sign of alpha * A wrong
design_band_filter_b2_sign(center_freq, gain, rate) ==
    IF rate = 0 THEN IdentityFilter
    ELSE LET A == GainFactor(gain)
             alpha == RDiv(SinW0(center_freq, rate), Whole(2))
             b0 == RAdd(Whole(1), RMul(alpha, A))
             b1 == RMul(Whole(0 - 2), CosW0(center_freq, rate))
             b2 == RAdd(Whole(1), RMul(alpha, A))
             a0 == RAdd(Whole(1), RDiv(alpha, A))
             a1 == RMul(Whole(0 - 2), CosW0(center_freq, rate))
             a2 == RSub(Whole(1), RDiv(alpha, A))
         IN  [b |-> <<RDiv(b0, a0), RDiv(b1, a0), RDiv(b2, a0)>>,
              a |-> <<RDiv(a0, a0), RDiv(a1, a0), RDiv(a2, a0)>>]

\* _design_band_filter with Q_factor = 1.0, for the file rate self holds
design_band_filter(center_freq, gain, rate) ==
    IF rate = 0 THEN IdentityFilter
    ELSE LET A == GainFactor(gain)
             alpha == RDiv(SinW0(center_freq, rate), Whole(2))
             b0 == RAdd(Whole(1), RMul(alpha, A))
             b1 == RMul(Whole(0 - 2), CosW0(center_freq, rate))
             b2 == RSub(Whole(1), RMul(alpha, A))
             a0 == RAdd(Whole(1), RDiv(alpha, A))
             a1 == RMul(Whole(0 - 2), CosW0(center_freq, rate))
             a2 == RSub(Whole(1), RDiv(alpha, A))
         IN  [b |-> <<RDiv(b0, a0), RDiv(b1, a0), RDiv(b2, a0)>>,
              a |-> <<RDiv(a0, a0), RDiv(a1, a0), RDiv(a2, a0)>>]

\* the filters of all bands for the gains (in tenths of a dB)
DesignFilters(gains, rate) ==
    [i \in 1 .. NBands |-> design_band_filter(BandFrequencies[i], gains[i], rate)]

\* np.zeros((max(len(b), len(a)) - 1, channels)) for each filter: per band and
\* channel the state of the filter, two values for a biquad and none for the
\* identity filter
ZeroStates(filters, channels) ==
    [i \in DOMAIN filters |->
        [c \in 1 .. channels |->
            IF Max(Len(filters[i].b), Len(filters[i].a)) = 1 THEN <<>>
            ELSE [k \in 1 .. Max(Len(filters[i].b), Len(filters[i].a)) - 1 |->
                     Whole(0)]]]

\* scipy.signal.lfilter(b, a, x, zi=zi) for a biquad with a[0] = 1, in the
\* transposed direct form II: the output, then the final state
RECURSIVE lfilter(_, _, _, _)
lfilter(b, a, x, zi) ==
    IF x = <<>> THEN [y |-> <<>>, zf |-> zi]
    ELSE LET x0 == Head(x)
             y0 == RAdd(RMul(b[1], x0), zi[1])
             z1 == RSub(RAdd(RMul(b[2], x0), zi[2]), RMul(a[2], y0))
             z2 == RSub(RMul(b[3], x0), RMul(a[3], y0))
             rest == lfilter(b, a, Tail(x), <<z1, z2>>)
         IN  [y |-> <<y0>> \o rest.y, zf |-> rest.zf]

\* current_filter_states[i] = zf
SetState(states, i, zf) ==
    [j \in DOMAIN states |-> IF j = i THEN zf ELSE states[j]]

\* the test of the worker for a filter that is to be skipped
IsIdentityFilter(f) ==
    /\ Len(f.b) = 1
    /\ f.b[1] = Whole(1)
    /\ Len(f.a) = 1
    /\ f.a[1] = Whole(1)

\* a cascade that runs lfilter for every filter of three coefficients and
\* resets the state of the other bands
RECURSIVE apply_filters_no_skip(_, _, _, _)
apply_filters_no_skip(filters, states, block, i) ==
    IF i > Len(filters) THEN [block |-> block, states |-> states]
    ELSE IF Len(filters[i].b) # 3
    THEN apply_filters_no_skip(filters, SetState(states, i, <<>>), block, i + 1)
    ELSE LET out == [c \in DOMAIN block |->
                        lfilter(filters[i].b, filters[i].a, block[c],
                                states[i][c])]
         IN  apply_filters_no_skip(
                 filters,
                 SetState(states, i, [c \in DOMAIN block |-> out[c].zf]),
                 [c \in DOMAIN block |-> out[c].y], i + 1)

\* the loop of the worker over the filters, from band i on: block holds the
\* samples of each channel, states the filter state of each band and channel
RECURSIVE apply_filters(_, _, _, _)
apply_filters(filters, states, block, i) ==
    IF i > Len(filters) THEN [block |-> block, states |-> states]
    ELSE IF IsIdentityFilter(filters[i])
    THEN apply_filters(filters, states, block, i + 1)
    ELSE LET out == [c \in DOMAIN block |->
                        lfilter(filters[i].b, filters[i].a, block[c],
                                states[i][c])]
         IN  apply_filters(
                 filters,
                 SetState(states, i, [c \in DOMAIN block |-> out[c].zf]),
                 [c \in DOMAIN block |-> out[c].y], i + 1)

\* gains of all bands, in tenths of a dB: flat, or the last band raised or
\* cut
FlatGains == [i \in 1 .. NBands |-> 0]

FilterGains ==
    {FlatGains}
    \cup {[FlatGains EXCEPT ![NBands] = g] : g \in {0 - 120, 0 - 60, 60, 120}}

\* blocks of two channels, the samples as whole numbers
FilterBlocks ==
    {<<<<Whole(1), Whole(0), Whole(0)>>, <<Whole(0), Whole(2), Whole(0 - 1)>>>>,
     <<<<Whole(2), Whole(1)>>, <<Whole(0 - 1), Whole(1)>>>>,
     <<<<Whole(0), Whole(1), Whole(1)>>, <<Whole(1), Whole(0), Whole(0)>>>>,
     <<<<Whole(1)>>, <<Whole(0 - 2)>>>>}

\* self.filter_states when the block is filtered: all zero, or with the state
\* of the last band left by blocks before
StateOf(zi, filters) ==
    IF zi = "zero" THEN ZeroStates(filters, FileChannels)
    ELSE SetState(ZeroStates(filters, FileChannels), NBands,
                  [c \in 1 .. FileChannels |-> <<Whole(c), Whole(c)>>])

\* a block is to be filtered: rate is the rate of the loaded file, 0 if no
\* file has been loaded; zi tells whether the filter state is all zero or
\* left by blocks before
InitFilter ==
    /\ InitPlayer
    /\ \E rate \in {0, 16000, 48000}, gains \in FilterGains,
          block \in FilterBlocks, zi \in {"zero", "used"} :
           probe = [fn |-> "filter", rate |-> rate, gains |-> gains,
                    block |-> block, zi |-> zi, done |-> FALSE,
                    filters |-> <<>>, states |-> <<>>, out |-> <<>>,
                    states_out |-> <<>>]

\* the filters are designed and the worker filters the block
FilterBlock ==
    /\ probe.fn = "filter"
    /\ ~probe.done
    /\ LET filters == DesignFilters(probe.gains, probe.rate)
           states == StateOf(probe.zi, filters)
           r == apply_filters(filters, states, probe.block, 1)
       IN  probe' = [fn |-> "filter", rate |-> probe.rate,
                     gains |-> probe.gains, block |-> probe.block,
                     zi |-> probe.zi, done |-> TRUE, filters |-> filters,
                     states |-> states, out |-> r.block,
                     states_out |-> r.states]
    /\ UNCHANGED player_vars

NextFilter == FilterBlock

SpecFilter == InitFilter /\ [][NextFilter]_vars

----------------------------------------------------------------------------
(* The equalizer is changed while the worker filters *)

\* apply_equalizer_settings calls while a track plays
MaxSwaps == 2

\* the gains the editor emits while a track plays: one band raised or cut, so
\* that a filtered block leaves a filter state that is not zero
SwapGains == FilterGains \ {FlatGains}

\* the filter bank designed for gains; id tells the list objects apart (0 is
\* the bank load_and_play designed)
Bank(id, gains) == [id |-> id, gains |-> gains]

\* a 48 kHz track has been loaded and its worker is in the loop:
\* load_and_play has designed the bank and zeroed the filter states. The
\* worker's place is wpc, the next line of apply_equalizer_settings is cpc,
\* and first[id] is the filter state the first block filtered with bank id
\* started from
InitSwap ==
    /\ InitPlayer
    /\ \E gains \in SwapGains :
           probe = [fn |-> "swap", equalizer_filters |-> Bank(0, gains),
                    filter_states |-> "zero", wpc |-> "copy_states",
                    current_filter_states |-> "zero",
                    current_equalizer_filters |-> Bank(0, gains),
                    cpc |-> "idle", swaps |-> 0,
                    first |-> [id \in 0 .. MaxSwaps |-> "none"]]

\* current_filter_states = [arr.copy() for arr in self.filter_states]
WorkerCopyStates ==
    /\ probe.fn = "swap"
    /\ probe.wpc = "copy_states"
    /\ probe' = [probe EXCEPT !.current_filter_states = probe.filter_states,
                              !.wpc = "copy_filters"]
    /\ UNCHANGED player_vars

\* current_equalizer_filters = list(self.equalizer_filters)
WorkerCopyFilters ==
    /\ probe.fn = "swap"
    /\ probe.wpc = "copy_filters"
    /\ probe' = [probe EXCEPT
                    !.current_equalizer_filters = probe.equalizer_filters,
                    !.wpc = "filter"]
    /\ UNCHANGED player_vars

\* the block goes through lfilter for every band, from the copied states: a
\* bank with a band raised or cut leaves a state that is not zero
WorkerFilter ==
    /\ probe.fn = "swap"
    /\ probe.wpc = "filter"
    /\ LET id == probe.current_equalizer_filters.id
       IN  probe' = [probe EXCEPT
                        !.first[id] = IF @ = "none"
                                      THEN probe.current_filter_states ELSE @,
                        !.current_filter_states = "used",
                        !.wpc = "write_back"]
    /\ UNCHANGED player_vars

\* self.filter_states = current_filter_states
WorkerWriteBack ==
    /\ probe.fn = "swap"
    /\ probe.wpc = "write_back"
    /\ probe' = [probe EXCEPT !.filter_states = probe.current_filter_states,
                              !.wpc = "copy_states"]
    /\ UNCHANGED player_vars

\* apply_equalizer_settings up to self.equalizer_filters = new_filters
ApplySwapFilters ==
    /\ probe.fn = "swap"
    /\ probe.cpc = "idle"
    /\ probe.swaps < MaxSwaps
    /\ \E gains \in SwapGains :
           probe' = [probe EXCEPT
                        !.equalizer_filters = Bank(probe.swaps + 1, gains),
                        !.swaps = probe.swaps + 1,
                        !.cpc = "reset"]
    /\ UNCHANGED player_vars

\* apply_equalizer_settings from there: self.filter_states = [np.zeros(...)]
ApplySwapReset ==
    /\ probe.fn = "swap"
    /\ probe.cpc = "reset"
    /\ probe' = [probe EXCEPT !.filter_states = "zero", !.cpc = "idle"]
    /\ UNCHANGED player_vars

NextSwap ==
    \/ WorkerCopyStates
    \/ WorkerCopyFilters
    \/ WorkerFilter
    \/ WorkerWriteBack
    \/ ApplySwapFilters
    \/ ApplySwapReset

SpecSwap == InitSwap /\ [][NextSwap]_vars

----------------------------------------------------------------------------
(* The block the worker hands to stream.write *)

\* scipy.signal.resample(x, num=num): num samples, whatever the length of x
resample(length, num) == num

\* np.vstack((output_block, padding)): the rows of both
vstack(length, padding) == length + padding

\* frames of output_block without the zero padding of a short block
output_block_frames_no_padding(file_rate, out_rate, n) ==
    IF file_rate # out_rate THEN resample(n, blocksize_output)
    ELSE IF n > blocksize_output THEN blocksize_output
    ELSE n

\* frames of output_block for a block of n source frames: resampled when the
\* rates differ, else padded with zeros or cut to blocksize_output
output_block_frames(file_rate, out_rate, n) ==
    IF file_rate # out_rate THEN resample(n, blocksize_output)
    ELSE IF n < blocksize_output THEN vstack(n, blocksize_output - n)
    ELSE IF n > blocksize_output THEN blocksize_output
    ELSE n

\* rates of the files and of the streams the worker can be started with
BlockFileRates == {16000, 44100, 48000, 96000}
BlockOutputRates == {44100, 48000}

\* lengths of tracks and positions in them, in frames
BlockTotals == {1, 400, 1024, 2500}
BlockPositions == {0, 1, 342, 1024, 2047}

\* the worker is at the head of its loop at position pos of a track of total
\* frames, with neither stop nor pause requested
InitBlock ==
    /\ InitPlayer
    /\ \E file_rate \in BlockFileRates, out_rate \in BlockOutputRates,
          total \in BlockTotals, pos \in BlockPositions :
           /\ pos < total
           /\ probe = [fn |-> "block", file_rate |-> file_rate,
                        out_rate |-> out_rate, total |-> total, pos |-> pos,
                        done |-> FALSE, n |-> 0, frames |-> 0]

\* one pass of the loop from the read of the block to stream.write
WorkerBlock ==
    /\ probe.fn = "block"
    /\ ~probe.done
    /\ LET n == Min(InputFrames(probe.file_rate, probe.out_rate),
                     probe.total - probe.pos)
       IN  probe' = [probe EXCEPT
                        !.n = n,
                        !.frames = output_block_frames(probe.file_rate,
                                                       probe.out_rate, n),
                        !.done = TRUE]
    /\ UNCHANGED player_vars

NextBlock == WorkerBlock

SpecBlock == InitBlock /\ [][NextBlock]_vars

----------------------------------------------------------------------------
(* The fade-in of a run of the worker *)

\* self.crossfade_duration_seconds, in tenths of a second
crossfade_duration_tenths == 20

\* int(self.crossfade_duration_seconds * self._file_samplerate)
fade_in_duration_frames(rate) == (crossfade_duration_tenths * rate) \div 10

\* the fade branch of a block that starts at pos, with no test of the flag
fade_step_position_only(is_initial_fade_in, pos, fade_frames) ==
    IF pos < fade_frames
    THEN [faded |-> TRUE, is_initial_fade_in |-> is_initial_fade_in]
    ELSE [faded |-> FALSE, is_initial_fade_in |-> FALSE]

\* the fade branch of a block that starts at pos: whether the block is
\* multiplied by the envelope, and the flag after it
fade_step(is_initial_fade_in, pos, fade_frames) ==
    IF is_initial_fade_in /\ pos < fade_frames
    THEN [faded |-> TRUE, is_initial_fade_in |-> TRUE]
    ELSE IF is_initial_fade_in /\ pos >= fade_frames
    THEN [faded |-> FALSE, is_initial_fade_in |-> FALSE]
    ELSE [faded |-> FALSE, is_initial_fade_in |-> is_initial_fade_in]

\* start positions (ms) a run of the worker is given
FadeStartsMs == {0 - 5, 0, 9, 1990, 2000}

\* tracks longer than the fade: rate and length in frames
FadeTracks == {[rate |-> 16000, total |-> 34000],
               [rate |-> 48000, total |-> 100000]}

\* a worker has been started at initial_position_ms of a track and has opened
\* its 48 kHz stream; start is the position of the block written last
InitFade ==
    /\ InitPlayer
    /\ \E track \in FadeTracks, ms \in FadeStartsMs :
           probe = [fn |-> "fade", rate |-> track.rate, total |-> track.total,
                    initial_position_ms |-> ms,
                    first |-> ClampFrame(MsToFrame(ms, track.rate), track.total),
                    pos |-> ClampFrame(MsToFrame(ms, track.rate), track.total),
                    is_initial_fade_in |-> (ms = 0), blocks |-> 0,
                    start |-> 0, faded |-> FALSE]

\* one block of the run: read, fade branch, write, position advanced
FadeBlock ==
    /\ probe.fn = "fade"
    /\ probe.pos < probe.total
    /\ LET n == Min(InputFrames(probe.rate, 48000), probe.total - probe.pos)
           f == fade_step(probe.is_initial_fade_in, probe.pos,
                          fade_in_duration_frames(probe.rate))
       IN  probe' = [probe EXCEPT !.start = probe.pos,
                                  !.pos = probe.pos + n,
                                  !.blocks = probe.blocks + 1,
                                  !.faded = f.faded,
                                  !.is_initial_fade_in = f.is_initial_fade_in]
    /\ UNCHANGED player_vars

NextFade == FadeBlock

SpecFade == InitFade /\ [][NextFade]_vars

----------------------------------------------------------------------------
(* Properties *)

\* a handler of the control thread has just returned
Returned(h) == todo = <<>> /\ call.h = h

\* C1: at most one playback worker thread is alive at any moment: a new worker
\* is never started while a worker started before is still running.
C1_AtMostOneWorker == Cardinality(Alive(State)) <= 1

\* C2: a worker whose join timed out acts as if stopped once stop_playback has
\* returned: the stop request stays in effect for it, so it never passes the
\* stop test at the head of its loop to read and write another block.
C2_TimedOutWorkerStaysStopped ==
    [][\A t \in Threads :
          threads[t].abandoned /\ threads[t].pc = "loop"
              => threads'[t].pc # "write"]_vars

\* toggle_play has returned from resuming a track the user had paused
Resumed ==
    /\ Returned("toggle_play")
    /\ call.file # None
    /\ ~call.playing
    /\ call.paused

\* C3 as the code has it: resume after a user pause is a reload. toggle_play
\* calls load_and_play(file, position in ms, auto_start), which stops and
\* joins the paused worker and, when the file loads, starts a new worker
\* thread that has yet to open its stream; the engine is Playing with no
\* pause or stop request, on the same file, at the position rounded down to
\* whole milliseconds. No worker is left but one whose join timed out.
C3_ResumeReloads ==
    Resumed /\ loaded = "ok" =>
        /\ audio_playback_thread # None
        /\ threads[audio_playback_thread].pc = "start"
        /\ threads[audio_playback_thread].stream = "none"
        /\ \A t \in Threads \ {audio_playback_thread} :
               threads[t].pc # "dead" => threads[t].abandoned
        /\ is_playing
        /\ ~pause_playback_event
        /\ ~stop_playback_event
        /\ status_label = "Playing"
        /\ current_playback_file = call.file
        /\ current_frame =
               ClampFrame(MsToFrame(FrameToMs(call.frame, file_samplerate),
                                    file_samplerate), total_frames)

\* a resume found the paused worker asleep with its stream open, and a new
\* worker has been started at a position other than 0
C3_Witness ==
    /\ Resumed
    /\ loaded = "ok"
    /\ call.worker = "sleep"
    /\ threads[audio_playback_thread].pc = "start"
    /\ current_frame > 0
    /\ current_frame < call.frame

\* C3 as stated: resume only withdraws the pause request; the worker and the
\* stream that existed before the pause keep running, no new worker is spawned
C3_ResumeKeepsWorker ==
    Resumed /\ loaded = "ok" /\ call.worker \in {"sleep", "loop", "write"} =>
        /\ threads[audio_playback_thread].pc # "start"
        /\ threads[audio_playback_thread].stream = "open"

\* C4: a worker that was asked to stop never causes the control thread to
\* observe the finished signal: when _update_ui_from_threads consumes it, it
\* was set by a worker no stop_playback had given up on.
C4_FinishedOnlyFromCompletion ==
    call.h = "finished" => call.fin # "abandoned"

\* the state load_and_play leaves with auto start: file f is loaded, the
\* position is frame 0, the mode is Playing and a new worker has been started
PlayingFromStart(f) ==
    /\ current_playback_file = f
    /\ current_audio_data_original = f
    /\ current_frame = 0
    /\ is_playing
    /\ ~pause_playback_event
    /\ status_label = "Playing"
    /\ audio_playback_thread # None
    /\ threads[audio_playback_thread].pc = "start"

\* the state a final stop leaves: mode Stopped, no track, position 0
FinalStopped ==
    /\ status_label = "Stopped"
    /\ ~is_playing
    /\ current_playback_file = None
    /\ current_audio_data_original = None
    /\ current_frame = 0
    /\ total_frames = 0

C6_RepeatCurrent ==
    Returned("finished") /\ repeat_mode = REPEAT_CURRENT /\ call.file # None =>
        /\ loaded # "none"
        /\ loaded = "ok" =>
               /\ PlayingFromStart(call.file)
               /\ current_index = call.index

C8_SeekPosition ==
    Returned("seek_position_audio") /\ current_audio_data_original # None =>
        current_frame =
            ClampFrame((call.arg * file_samplerate) \div 1000, total_frames)

\* C9: a seek issued while playback is active ends with mode Playing and
\* exactly one worker alive, the new one, which has yet to read its first
\* block and will read it at the target frame; the old worker is gone.
C9_SeekWhilePlaying ==
    Returned("seek_position_audio") /\ call.playing /\ ~call.paused
    /\ loaded = "ok" =>
        /\ is_playing
        /\ status_label = "Playing"
        /\ audio_playback_thread # None
        /\ Alive(State) = {audio_playback_thread}
        /\ threads[audio_playback_thread].pc = "start"
        /\ current_frame =
               ClampFrame(MsToFrame(call.arg, file_samplerate), total_frames)

\* C10: a seek issued while the engine is Paused or Stopped with a track
\* loaded leaves the pause request and the reported state as they were, and
\* changes only the position, to the target frame.
C10_SeekKeepsMode ==
    Returned("seek_position_audio") /\ current_audio_data_original # None
    /\ ~call.playing /\ call.label \in {"Paused", "Stopped"} =>
        /\ pause_playback_event = call.paused
        /\ status_label = call.label
        /\ is_playing = call.playing
        /\ current_playback_file = call.file
        /\ current_frame =
               ClampFrame(MsToFrame(call.arg, file_samplerate), total_frames)

\* C11: stop_playback(final_stop=True) called twice in a row, as
\* remove_selected_tracks calls it when the only row, the loaded track, is
\* removed, leaves no track (file and buffer None), position and total frames
\* 0, is_playing false, no worker alive and the stop, pause and finished
\* flags clear.
C11_FinalStopTwice ==
    Returned("remove_selected_tracks") /\ call.file # None /\ playlist = <<>> =>
        /\ FinalStopped
        /\ Alive(State) = {}
        /\ ~stop_playback_event
        /\ ~pause_playback_event
        /\ ~playback_finished_event

\* the second of two pause requests in a row has returned: the handler before
\* it was toggle_play or stop_player_during_seek on a playing engine, and no
\* thread has taken a step since
SecondPause ==
    /\ todo = <<>>
    /\ call.h \in {"toggle_play", "stop_player_during_seek"}
    /\ call.after = "pause"

\* the state the first pause request left is still there: pause-requested is
\* set, no track was loaded and no worker started, the worker and the
\* position are those the handler found
StillPaused ==
    /\ pause_playback_event
    /\ loaded = "none"
    /\ call.worker = IF audio_playback_thread = None THEN "none"
                     ELSE threads[audio_playback_thread].pc
    /\ current_frame = call.frame
    /\ current_playback_file = call.file

\* C12 as the code has it: setting the pause request is idempotent. A pause
\* request that follows another with nothing in between, issued by
\* stop_player_during_seek, or by toggle_play while is_playing is still true
\* (after stop_player_during_seek), leaves pause-requested set, the same
\* worker and the same position, and loads nothing; after toggle_play it
\* leaves is_playing false and the state Paused.
C12_PauseRequestIdempotent ==
    SecondPause /\ (call.h = "stop_player_during_seek" \/ call.playing) =>
        /\ StillPaused
        /\ call.h = "toggle_play" => ~is_playing /\ status_label = "Paused"

\* toggle_play has paused again an engine that the press of the slider had
\* paused, with the worker asleep or in its loop
C12_Witness ==
    /\ SecondPause
    /\ call.h = "toggle_play"
    /\ call.playing
    /\ call.paused
    /\ call.worker \in {"sleep", "loop", "write"}
    /\ StillPaused

\* C12 as stated: the pause request issued twice in a row while playing
\* leaves the engine as one request does; the second request does not resume
\* or restart playback (the file of the track being there to read).
C12_PauseTwice ==
    SecondPause /\ loaded \notin {"missing", "unreadable"} => StillPaused

\* the track and the position: file, decoded buffer, length, sample rate and
\* current_frame
TrackOf(s) ==
    <<s.current_playback_file, s.current_audio_data_original, s.total_frames,
      s.file_samplerate, s.current_frame>>

\* the control thread in stop_playback(final_stop=False), called in state s:
\* up to its return or, with a worker alive, up to the join
NonFinalStop(s) == Run([s EXCEPT !.todo = <<OpStop(FALSE)>>])

\* a handler waits in the join of a stop_playback(final_stop=False)
InNonFinalStop ==
    /\ Joining(State)
    /\ Len(todo) >= 2
    /\ todo[2] = OpStopEnd(FALSE)

\* C13: stop_playback(final_stop=False) preserves the track and the
\* position. Called in any state between two handlers, the control thread
\* leaves file, buffer, total_frames, sample rate and current_frame as they
\* are, up to the join and, with no worker alive, up to its return; and where
\* a handler waits in the join, the rest of stop_playback leaves them as the
\* worker left them, whether the join returns or times out.
C13_NonFinalStopKeepsTrack ==
    /\ Idle => TrackOf(NonFinalStop(State)) = TrackOf(State)
    /\ InNonFinalStop =>
           /\ TrackOf(stop_playback_end(Pop(State), FALSE)) = TrackOf(State)
           /\ TrackOf(stop_playback_end(join_timed_out(State), FALSE))
                  = TrackOf(State)

\* a handler waits in the join of a non-final stop, with a track loaded, the
\* position past the first block and the worker writing the next one
C13_Witness ==
    /\ InNonFinalStop
    /\ current_audio_data_original # None
    /\ current_frame > 0
    /\ current_frame < total_frames
    /\ threads[audio_playback_thread].pc = "write"
    /\ stop_playback_event

\* the last element of a sequence that is not empty
Last(seq) == seq[Len(seq)]

\* C14: on PortAudio error -9999 in stream.write the engine becomes Paused,
\* not Stopped. In the step that emits restart_playback_signal the worker
\* sets pause-requested, the track stays loaded and the signal carries the
\* position current_frame holds, in ms: at most the position after the last
\* block written and less than one block before it. And no step of
\* _delayed_restart_playback, the handler of the signal, clears the track or
\* its length (the file being there to read).
C14_WriteFailurePauses ==
    [][/\ Len(restart_signals') > Len(restart_signals) =>
              /\ pause_playback_event'
              /\ current_audio_data_original' # None
              /\ current_playback_file' = current_playback_file
              /\ Last(restart_signals') =
                     FrameToMs(current_frame, file_samplerate)
              /\ LET f == MsToFrame(Last(restart_signals'), file_samplerate)
                 IN  /\ f <= current_frame
                     /\ current_frame - f < blocksize_output
       /\ /\ call'.h = "delayed_restart"
          /\ loaded' # "unreadable"
          /\ current_audio_data_original # None
          => /\ current_audio_data_original' = current_audio_data_original
             /\ current_playback_file' = current_playback_file
             /\ total_frames' = total_frames]_vars

\* C15: the loss of the default output device never destroys the track or
\* the position. When update_default_audio_device_display has found no
\* default device and returns, the status is disconnected; and while there is no default
\* device, no step of the worker, of a device check that finds none or of
\* the handler of the restart signal changes the file, the buffer, total_frames or
\* current_frame (the file being there to read), so that they are intact
\* when the device reappears.
C15_DeviceLossKeepsTrack ==
    [][/\ /\ call'.h = "device_check"
          /\ todo' = <<>>
          /\ call'.arg = NoDevice
          => current_device_status' = "disconnected"
       /\ /\ default_device = NoDevice
          /\ current_audio_data_original # None
          /\ \/ call'.h \in {"delayed_restart", "none"}
             \/ call'.h = "device_check" /\ call'.arg = NoDevice
          /\ loaded' # "unreadable"
          => /\ current_playback_file' = current_playback_file
             /\ current_audio_data_original' = current_audio_data_original
             /\ total_frames' = total_frames
             /\ current_frame' = current_frame]_vars

\* C16: when the default output device changes or reappears, playback is
\* auto-started only if the engine was playing or had been paused by the
\* disconnect. If update_default_audio_device_display finds a track that the
\* user paused or that was loaded and never started (is_playing false), it
\* returns with the engine not playing, nothing loaded and no worker started.
C16_NoAutoStartAfterUserPause ==
    Returned("device_check") /\ call.file # None /\ ~call.playing =>
        /\ ~is_playing
        /\ loaded = "none"
        /\ audio_playback_thread = None
               \/ threads[audio_playback_thread].pc = call.worker

\* C17: _find_optimal_device_samplerate returns the first rate, in the order
\* file rate, 48000, 44100, 96000, 88200 (without the file rate again), the
\* default rate of the device, that the device accepts for the number of
\* channels; the file rate when the device accepts none of them or cannot be
\* queried. Whenever the device accepts the file rate, that is the result.
C17_FirstAcceptedRate ==
    probe.fn = "find_optimal_device_samplerate" /\ probe.result # None =>
        LET dev == probe.device
            order ==
                <<probe.file_rate>>
                \o SelectSeq(<<48000, 44100, 96000, 88200>>,
                             LAMBDA r : r # probe.file_rate)
                \o <<dev.default_samplerate>>
            taken == {i \in DOMAIN order :
                         <<order[i], probe.num_channels>> \in dev.accepts}
        IN  /\ probe.result =
                   IF dev.ok /\ taken # {}
                   THEN order[CHOOSE i \in taken : \A j \in taken : i <= j]
                   ELSE probe.file_rate
            /\ dev.ok /\ <<probe.file_rate, probe.num_channels>> \in dev.accepts
                   => probe.result = probe.file_rate

\* the device takes 96000 and 88200 Hz and its default rate, but neither the
\* rate of the file nor 48000 or 44100 Hz: the result is 96000 Hz
C17_Witness ==
    /\ probe.fn = "find_optimal_device_samplerate"
    /\ probe.file_rate = 16000
    /\ probe.device.ok
    /\ probe.device.default_samplerate = 22050
    /\ {r \in ProbeRates : <<r, probe.num_channels>> \in probe.device.accepts}
           = {22050, 88200, 96000}
    /\ probe.result = 96000

\* __init__ has just loaded the equalizer settings
Started ==
    /\ probe.fn = "equalizer"
    /\ probe.running
    /\ probe.started

\* C18: saving the equalizer settings and loading them at the next startup
\* gives the same gains, for every vector of 10 gains in [-12, 12] dB in
\* steps of 0.1 dB: after apply_equalizer_settings and the load in __init__
\* the settings are the gains that were saved.
C18_EqualizerRoundTrip ==
    Started /\ probe.saved # <<>> =>
        /\ Len(probe.equalizer_settings) = NBands
        /\ \A i \in 1 .. NBands :
               probe.equalizer_settings[i].v = probe.saved[i]

\* C19: at startup, stored equalizer settings of a length other than 10 or
\* with an element that is no number are replaced by ten zeros, which are
\* written to the store; after __init__ the settings always are 10 numbers.
C19_InvalidSettingsReset ==
    Started =>
        /\ Len(probe.equalizer_settings) = NBands
        /\ \A i \in 1 .. NBands : probe.equalizer_settings[i].kind = "int"
        /\ \/ Len(probe.read) # NBands
           \/ \E i \in DOMAIN probe.read :
                  probe.read[i].kind \in {"none", "junk"}
           => /\ probe.equalizer_settings = FlatSettings
              /\ probe.store = FlatSettings

\* the store held eleven elements, and the settings are ten zeros
C19_Witness ==
    /\ Started
    /\ Len(probe.read) = NBands + 1
    /\ probe.equalizer_settings = FlatSettings
    /\ probe.store = FlatSettings

\* C20: an unexpected exception in the worker thread signals finished and
\* ends the thread; when _update_ui_from_threads has handled that finished
\* signal the engine is stopped, in every repeat mode: nothing plays, no track
\* has been loaded and no worker is alive.
C20_FatalErrorStops ==
    Returned("finished") /\ call.fin = "fatal" =>
        /\ ~is_playing
        /\ status_label = "Stopped"
        /\ loaded = "none"
        /\ Alive(State) = {}

\* C21: a failed load resets playback to Stopped: when a handler whose
\* load_and_play failed (the file is missing or cannot be read) has returned,
\* is_playing is false, no worker is alive and the status shown is Stopped.
C21_FailedLoadStops ==
    Idle /\ loaded \in {"missing", "unreadable"} =>
        /\ ~is_playing
        /\ Alive(State) = {}
        /\ status_label = "Stopped"

\* C22: the controls are safe when no track is loaded (none was ever loaded,
\* or a final stop has unloaded it): a seek of the slider or of the arrow keys
\* raises no error and leaves the engine as it was.
C22_ControlsSafe ==
    /\ Idle
    /\ call.h \in {"seek_position_audio", "eventFilter"}
    /\ call.file = None
    => /\ call.raised = "none"
       /\ current_playback_file = None
       /\ is_playing = call.playing
       /\ pause_playback_event = call.paused
       /\ status_label = call.label

\* C23: load_and_play without auto start spawns no worker: when
\* load_last_session_state has loaded the track, no thread is alive, is_playing
\* is false, the track is installed and the position is
\* clamp(floor(start_position_ms * sample rate / 1000), 0, total_frames). With
\* auto start exactly one worker has been spawned, with the stop, pause and
\* finished flags clear and the mode Playing.
C23_LoadWithoutAutoStart ==
    /\ Returned("load_last_session_state") /\ loaded = "ok" =>
           /\ Alive(State) = {}
           /\ ~is_playing
           /\ current_playback_file # None
           /\ current_audio_data_original = current_playback_file
           /\ current_frame =
                  ClampFrame((call.arg * file_samplerate) \div 1000,
                             total_frames)
    /\ Idle /\ call.h # "load_last_session_state" /\ loaded = "ok" =>
           /\ audio_playback_thread # None
           /\ Alive(State) = {audio_playback_thread}
           /\ threads[audio_playback_thread].pc = "start"
           /\ ~stop_playback_event
           /\ ~pause_playback_event
           /\ ~playback_finished_event
           /\ is_playing
           /\ status_label = "Playing"

\* C24: with every band at 0 dB the equalizer is an identity: each filter
\* designed for a loaded file has b equal to a, element by element, and the
\* cascade applied to a block with all-zero filter state gives the block
\* back, with the same length.
C24_FlatEqualizerIdentity ==
    /\ probe.fn = "filter"
    /\ probe.done
    /\ probe.gains = FlatGains
    /\ probe.rate # 0
    => /\ \A i \in 1 .. NBands : probe.filters[i].b = probe.filters[i].a
       /\ probe.zi = "zero" =>
              /\ probe.out = probe.block
              /\ \A c \in DOMAIN probe.block :
                     Len(probe.out[c]) = Len(probe.block[c])

\* a block of three samples went through ten biquads designed for 0 dB at
\* 48 kHz, from zero state, and came out as it was
C24_Witness ==
    /\ probe.fn = "filter"
    /\ probe.done
    /\ probe.gains = FlatGains
    /\ probe.rate = 48000
    /\ probe.zi = "zero"
    /\ \A i \in 1 .. NBands : Len(probe.filters[i].b) = 3
    /\ probe.filters[NBands].b[1] # probe.filters[NBands].b[3]
    /\ Len(probe.block[1]) = 3
    /\ probe.out = probe.block

\* C25: with no track loaded (file rate 0) the filter design gives the
\* identity filter b = [1], a = [1] for every band and every gain, and the
\* worker skips such a filter: the block and the filter state are as before.
C25_NoTrackIdentityFilter ==
    /\ probe.fn = "filter"
    /\ probe.done
    /\ probe.rate = 0
    => /\ \A i \in 1 .. NBands : probe.filters[i] = IdentityFilter
       /\ probe.out = probe.block
       /\ probe.states_out = probe.states

\* a band is set to +12 dB with no track loaded, the filter state is not
\* zero, and the block and the state came through untouched
C25_Witness ==
    /\ probe.fn = "filter"
    /\ probe.done
    /\ probe.rate = 0
    /\ probe.gains[NBands] = 120
    /\ probe.zi = "used"
    /\ probe.states_out = probe.states
    /\ probe.out = probe.block

\* C26: when the worker's write of a block succeeds, the position advances
\* by the source frames the block consumed,
\* min(ceil(1024 * file rate / output rate), total_frames - position),
\* whatever the ratio of the rates; when the write fails the position stays.
C26_PositionAdvancesBySourceFrames ==
    [][\A t \in Threads :
           threads[t].pc = "write" =>
               /\ threads'[t].pc = "loop" =>
                      current_frame' =
                          current_frame
                              + Min(InputFrames(file_samplerate,
                                                threads[t].out_rate),
                                    total_frames - current_frame)
               /\ threads'[t].pc = "dead" => current_frame' = current_frame]_vars

\* the first block of a 16 kHz file has been written to a 48 kHz stream: 342
\* source frames for 1024 output frames
C26_Witness ==
    \E t \in Threads :
        /\ threads[t].pc = "loop"
        /\ threads[t].out_rate = 48000
        /\ file_samplerate = 16000
        /\ threads[t].pos = 342
        /\ current_frame = 342

\* C27: the worker tests stop between any two writes: while stop is set a
\* worker that is between two writes, at the test of the loop or asleep in
\* the pause loop, takes no step but the one that ends it, and a worker that
\* is in a write or has not opened its stream yet comes to that test next, so
\* at most one further block is written; a scheduled worker is gone before
\* the stop flag is cleared.
C27_StopWithinOneBlock ==
    /\ [][\A t \in Threads :
              stop_playback_event /\ threads'[t] # threads[t] =>
                  /\ threads[t].pc \in {"loop", "sleep"} =>
                         threads'[t].pc = "dead"
                  /\ threads[t].pc \in {"start", "write"} =>
                         /\ threads'[t].pc \in {"loop", "dead"}
                         /\ stop_playback_event']_vars
    /\ \A t \in Threads :
           (stop_playback_event /\ threads[t].pc # "dead")
               ~> (threads[t].pc = "dead")

\* stop is set while the worker is in the write of a block that is not the
\* first
C27_Witness ==
    /\ stop_playback_event
    /\ \E t \in Threads : threads[t].pc = "write" /\ threads[t].pos > 0

\* C28: while pause is set and stop is not, a worker that is between two
\* writes goes to sleep or stays asleep: it starts no write, it stays alive,
\* its stream is left as it is and no step of a worker but the end of a write
\* moves the position; a worker that was in a write when the flag was set
\* finishes that one block and comes to the test of the loop.
C28_PauseSuspendsWrites ==
    [][\A t \in Threads :
           pause_playback_event /\ ~stop_playback_event =>
               /\ threads[t].pc \in {"loop", "sleep"} =>
                      /\ threads'[t] = [threads[t] EXCEPT !.pc = "sleep"]
                             \/ threads'[t] = threads[t]
                      /\ threads'[t] # threads[t] => current_frame' = current_frame
               /\ threads[t].pc = "write" =>
                      threads'[t].pc \in {"write", "loop", "dead"}]_vars

\* the worker is asleep in the pause loop, after blocks were written, with
\* its stream open
C28_Witness ==
    /\ pause_playback_event
    /\ ~stop_playback_event
    /\ \E t \in Threads :
           /\ threads[t].pc = "sleep"
           /\ threads[t].stream = "open"
           /\ threads[t].pos > 0
           /\ current_frame = threads[t].pos

\* C29: after apply_equalizer_settings has installed a new filter bank, the
\* first block the worker filters with that bank starts from all-zero filter
\* state: the state the worker writes back from a copy it took before the
\* swap does not replace the reset.
C29_ResetAccompaniesSwap ==
    probe.fn = "swap" =>
        \A id \in 1 .. MaxSwaps : probe.first[id] \in {"none", "zero"}

\* C30: the position is never written by two threads at once: a step of the
\* control thread (any step that is not the end of a worker's write) changes
\* current_frame only when no worker thread is alive, so that while a worker
\* is alive the worker is the only writer.
C30_PositionSingleWriter ==
    [][/\ current_frame' # current_frame
       /\ ~\E t \in Threads : threads[t].pc = "write" /\ threads'[t].pc = "loop"
       => Alive(State) = {}]_vars

\* C31: every block the worker writes has exactly 1024 frames, whether the
\* rate of the file is above, below or equal to the rate of the stream, the
\* last, shorter block of a track included.
C31_BlockHas1024Frames ==
    probe.fn = "block" /\ probe.done => probe.frames = blocksize_output

\* the last 58 frames of a 400-frame track at equal rates went out as a full
\* block
C31_Witness ==
    /\ probe.fn = "block"
    /\ probe.done
    /\ probe.file_rate = probe.out_rate
    /\ probe.total = 400
    /\ probe.pos = 342
    /\ probe.n = 58
    /\ probe.frames = blocksize_output

\* C32: a block is faded only in a run that was started at position 0 and
\* only if it starts below the fade duration (2 s of source frames); the
\* first block that starts at or beyond the fade duration clears the flag,
\* and the flag, once clear, stays clear: no later block of the run is faded.
C32_FadeOnlyAtStart ==
    /\ [](probe.fn = "fade" /\ probe.blocks > 0 =>
             /\ probe.faded =>
                    /\ probe.first = 0
                    /\ probe.initial_position_ms = 0
                    /\ probe.start < fade_in_duration_frames(probe.rate)
             /\ probe.start >= fade_in_duration_frames(probe.rate) =>
                    ~probe.is_initial_fade_in /\ ~probe.faded)
    /\ [][probe.fn = "fade" /\ ~probe.is_initial_fade_in =>
              ~probe'.is_initial_fade_in /\ ~probe'.faded]_vars

\* a run from position 0 has written its first block beyond the fade
\* duration, not faded, after faded blocks
C32_Witness ==
    /\ probe.fn = "fade"
    /\ probe.initial_position_ms = 0
    /\ probe.rate = 16000
    /\ probe.start >= 32000
    /\ probe.start < 32342
    /\ ~probe.faded
    /\ ~probe.is_initial_fade_in

\* C33: the finished signal is answered once and only for the worker that
\* reached the end of its track: the signal the control thread consumes was
\* set by the last worker started, not by one started before it, and is clear
\* when the reaction returns; while it is pending no worker is alive, so it
\* cannot end or skip a track that was loaded after it was set.
C33_FinishedConsumedOnce ==
    /\ Returned("finished") =>
           call.fin = "worker" /\ ~playback_finished_event
    /\ playback_finished_event =>
           finished_by = "worker" /\ Alive(State) = {}

\* C34: after every completed action of the control thread and after every
\* block of the worker the position is within the track:
\* 0 <= current_frame <= total_frames.
C34_PositionWithinTrack ==
    Idle => 0 <= current_frame /\ current_frame <= total_frames

\* C35: whenever the control thread is idle and the engine is flagged as
\* playing (is_playing set, pause not requested) with no finished signal, no
\* restart request and no error report pending, a worker thread is alive.
C35_PlayingHasWorker ==
    /\ Idle
    /\ is_playing
    /\ ~pause_playback_event
    /\ ~playback_finished_event
    /\ restart_signals = <<>>
    /\ ~audio_error_pending
    => Alive(State) # {}

C37_ResumePosition ==
    Resumed /\ loaded = "ok" =>
        /\ current_frame =
               (((1000 * call.frame) \div file_samplerate) * file_samplerate)
                   \div 1000
        /\ current_frame <= call.frame
        /\ 1000 * (call.frame - current_frame) < file_samplerate + 1000
        /\ FrameToMs(call.frame, file_samplerate) = 0 =>
               (1000 * call.frame) \div file_samplerate = 0

\* C38: an edit of the playlist (move up, move down, drag, removal of another
\* track) made while current_index is the row of the loaded track leaves
\* current_index on the row of the loaded track.
C38_EditKeepsCurrentIndex ==
    [][/\ Idle
       /\ todo' = <<>>
       /\ call'.h \in {"move_track_up", "move_track_down",
                       "_handle_playlist_rows_moved", "remove_selected_tracks"}
       /\ current_playback_file # None
       /\ current_playback_file' = current_playback_file
       /\ current_playback_file \in Range(playlist)
       /\ current_playback_file \in Range(playlist')
       /\ current_index >= 0
       /\ current_index < Len(playlist)
       /\ PyIndex(playlist, current_index) = current_playback_file
       => /\ current_index' >= 0
          /\ current_index' < Len(playlist')
          /\ PyIndex(playlist', current_index') = current_playback_file]_vars

====
